---------------------------- MODULE Spec2Model ----------------------------
(***************************************************************************)
(* A model of ExcelRAGProcessor (src/processor.py) and of the way its      *)
(* callers drive it (src/app.py, src/local_ui.py, src/test_processor.py).  *)
(*                                                                         *)
(* Python values are modelled structurally:                                *)
(*   - a str is a sequence of one-character strings, so that strip(),      *)
(*     lower(), startswith() and str() are computed, not assumed;          *)
(*   - a cell / dict value is a record [kind, val] with kind one of        *)
(*     "None", "float" (the parsed missing value NaN), "int", "str";       *)
(*   - a dict with run-time keys (a Record) is a sequence of <<key, value>>*)
(*     pairs in insertion order, keys unique.                              *)
(***************************************************************************)
EXTENDS Integers, Sequences, FiniteSets, TLC

VARIABLES
    processed_files,  \* self.processed_files: file id -> File Result
    all_records,      \* self.all_records: the Flat Record Store
    embeddings,       \* self.embeddings: "None" or "model"
    vector_store,     \* self.vector_store: NoStore or [docs |-> ...]
    call,             \* the last process_files call: its argument and outcome
    arg,              \* the row or grid a function is applied to
    ret,              \* what the function returned for arg
    ing,              \* the ingestion thread (local_ui process_thread)
    qry,              \* the query thread (local_ui query_thread)
    committed,        \* <<store, index>> as the last completed batch left them
    conversation_history  \* self.conversation_history

vars == <<processed_files, all_records, embeddings, vector_store, call,
          arg, ret, ing, qry, committed, conversation_history>>

(***************************************************************************)
(* Bounds of the model.                                                    *)
(***************************************************************************)
MaxRowLen == 3      \* cells per row, classifier inputs
MaxCols == 2        \* width of an enumerated grid
MaxRows == 4        \* rows of an enumerated grid below its banner
MaxCells == 8       \* cells of an enumerated grid below its banner
MaxBatch == 2       \* files per process_files call
MaxCalls == 2       \* process_files calls started from the window
MaxAsks == 2        \* consecutive askings of one question that are counted

(***************************************************************************)
(* Python str                                                              *)
(***************************************************************************)
UpperCase == <<"A","B","C","D","E","F","G","H","I","J","K","L","M",
               "N","O","P","Q","R","S","T","U","V","W","X","Y","Z">>
LowerCase == <<"a","b","c","d","e","f","g","h","i","j","k","l","m",
               "n","o","p","q","r","s","t","u","v","w","x","y","z">>
Digits == <<"0","1","2","3","4","5","6","7","8","9">>
Whitespace == {" ", "\t", "\n", "\r"}

\* str.lower(), one character
LowerChar(c) ==
    IF \E i \in 1..Len(UpperCase) : UpperCase[i] = c
    THEN LowerCase[CHOOSE i \in 1..Len(UpperCase) : UpperCase[i] = c]
    ELSE c

\* str.lower()
Lower(s) == [i \in 1..Len(s) |-> LowerChar(s[i])]

\* str.strip(): drop leading and trailing whitespace
Strip(s) ==
    LET keep == {i \in 1..Len(s) : s[i] \notin Whitespace}
    IN  IF keep = {} THEN << >>
        ELSE LET lo == CHOOSE i \in keep : \A j \in keep : i <= j
                 hi == CHOOSE i \in keep : \A j \in keep : j <= i
             IN  SubSeq(s, lo, hi)

\* str.startswith(p)
StartsWith(s, p) == Len(s) >= Len(p) /\ SubSeq(s, 1, Len(p)) = p

\* str.endswith(p)
EndsWith(s, p) == Len(s) >= Len(p) /\ SubSeq(s, Len(s) - Len(p) + 1, Len(s)) = p

\* str(n) for an int n >= 0
RECURSIVE IntToStr(_)
IntToStr(n) ==
    IF n < 10 THEN <<Digits[n + 1]>>
    ELSE IntToStr(n \div 10) \o <<Digits[(n % 10) + 1]>>

\* os.path.basename(p) for a str p: what follows the last "/"
Basename(p) ==
    LET slashes == {i \in 1..Len(p) : p[i] = "/"}
    IN  IF slashes = {} THEN p
        ELSE SubSeq(p, (CHOOSE i \in slashes : \A j \in slashes : j <= i) + 1, Len(p))

(***************************************************************************)
(* Cell values, as df_raw.values.tolist() or a caller's list holds them    *)
(***************************************************************************)
NoneCell == [kind |-> "None", val |-> << >>]
NaNCell == [kind |-> "float", val |-> <<"n","a","n">>]
IntCell(n) == [kind |-> "int", val |-> n]
StrCell(s) == [kind |-> "str", val |-> s]

\* str(cell)
Str(cell) ==
    CASE cell.kind = "None" -> <<"N","o","n","e">>
      [] cell.kind = "float" -> cell.val
      [] cell.kind = "int" -> IntToStr(cell.val)
      [] OTHER -> cell.val

\* bool(cell): None, 0 and '' are falsy; NaN is truthy
Truthy(cell) ==
    CASE cell.kind = "None" -> FALSE
      [] cell.kind = "float" -> TRUE
      [] cell.kind = "int" -> cell.val # 0
      [] OTHER -> cell.val # << >>

NullWords == { <<"n","a","n">>, <<"n","o","n","e">> }

\* the cell test without its .lower(): "NaN" and "None" count as values
IsNullCell_NoLower(cell) ==
    \/ cell.kind = "None"
    \/ Strip(Str(cell)) = << >>
    \/ Str(cell) \in NullWords

\* line 81: the cell test of _has_mixed_values
IsNullCell(cell) ==
    \/ cell.kind = "None"
    \/ Strip(Str(cell)) = << >>
    \/ Lower(Str(cell)) \in NullWords

\* lines 65 and 149: "cell is not None and str(cell).strip()"
IsNonNull(cell) == cell.kind # "None" /\ Strip(Str(cell)) # << >>

\* line 160: "cell and str(cell).strip()"
IsMeaningful(cell) == Truthy(cell) /\ Strip(Str(cell)) # << >>

(***************************************************************************)
(* _has_mixed_values, lines 72-90: the loop with its two flags and its     *)
(* early return                                                            *)
(***************************************************************************)
RECURSIVE MixedLoop(_, _, _, _)
MixedLoop(row, i, has_null, has_non_null) ==
    IF i > Len(row) THEN has_null /\ has_non_null
    ELSE LET n == has_null \/ IsNullCell(row[i])
             m == has_non_null \/ ~IsNullCell(row[i])
         IN  IF n /\ m THEN TRUE ELSE MixedLoop(row, i + 1, n, m)

HasMixedValues(row) ==
    IF row = << >> THEN FALSE ELSE MixedLoop(row, 1, FALSE, FALSE)

(***************************************************************************)
(* find_header_with_sequential_pattern, lines 45-70.  Indices are the      *)
(* code's (0-based); via names the return statement taken.                 *)
(***************************************************************************)
FallbackWindow == 10

NoHeader == [index |-> -1, via |-> "none"]

\* the scan that keeps going after a match and so answers with the highest
\* matching index
RECURSIVE PatternScan_LastMatch(_, _)
PatternScan_LastMatch(data, i) ==
    IF i >= Len(data) - 2 THEN NoHeader
    ELSE IF PatternScan_LastMatch(data, i + 1).via = "pattern"
         THEN PatternScan_LastMatch(data, i + 1)
         ELSE IF /\ HasMixedValues(data[i + 1])
                 /\ HasMixedValues(data[i + 2])
                 /\ HasMixedValues(data[i + 3])
              THEN [index |-> i, via |-> "pattern"]
              ELSE NoHeader

\* lines 50-61: for i in range(len(data) - 2)
RECURSIVE PatternScan(_, _)
PatternScan(data, i) ==
    IF i >= Len(data) - 2 THEN NoHeader
    ELSE IF /\ HasMixedValues(data[i + 1])
            /\ HasMixedValues(data[i + 2])
            /\ HasMixedValues(data[i + 3])
         THEN [index |-> i, via |-> "pattern"]
         ELSE PatternScan(data, i + 1)

\* line 65
NonNullCount(row) == Cardinality({j \in 1..Len(row) : IsNonNull(row[j])})

\* the density test with > in place of >=
DenseEnough_Strict(row) == 2 * NonNullCount(row) > Len(row)

\* line 66: non_null_count >= len(row) * 0.5
DenseEnough(row) == 2 * NonNullCount(row) >= Len(row)

\* lines 64-68: for i, row in enumerate(data[:10])
RECURSIVE FallbackScan(_, _)
FallbackScan(data, i) ==
    IF i >= Len(data) \/ i >= FallbackWindow THEN NoHeader
    ELSE IF DenseEnough(data[i + 1])
         THEN [index |-> i, via |-> "fallback"]
         ELSE FallbackScan(data, i + 1)

FindHeader(data) ==
    LET p == PatternScan(data, 0)
    IN  IF p.via = "pattern" THEN p ELSE FallbackScan(data, 0)

(***************************************************************************)
(* Python dict with run-time keys                                          *)
(***************************************************************************)
DictHas(d, k) == \E i \in 1..Len(d) : d[i][1] = k

DictGet(d, k) == d[CHOOSE i \in 1..Len(d) : d[i][1] = k][2]

\* d[k] = v: a present key keeps its place, a new key goes last
DictSet(d, k, v) ==
    IF DictHas(d, k)
    THEN [d EXCEPT ![CHOOSE i \in 1..Len(d) : d[i][1] = k] = <<k, v>>]
    ELSE Append(d, <<k, v>>)

K_file_id == <<"_","f","i","l","e","_","i","d">>
K_filename == <<"_","f","i","l","e","n","a","m","e">>
K_row_index == <<"_","r","o","w","_","i","n","d","e","x">>
K_original_row == <<"_","o","r","i","g","i","n","a","l","_","r","o","w">>

\* key.startswith('_')
IsProvenanceKey(k) == StartsWith(k, <<"_">>)


(***************************************************************************)
(* _process_single_file, lines 123-196                                     *)
(***************************************************************************)
Raise(type, msg) == [outcome |-> "raise", type |-> type, msg |-> msg]
Return(value) == [outcome |-> "return", value |-> value]

\* header names that leave empty header cells out instead of naming them
\* Column_<n>
HeaderNames_SkipEmpty(header_data, headers) ==
    LET kept == SelectSeq(header_data, IsNonNull)
    IN  headers \o [j \in 1..Len(kept) |-> Strip(Str(kept[j]))]

\* lines 146-152: one name per header cell, Column_<n> for an empty cell
RECURSIVE HeaderNames(_, _)
HeaderNames(header_data, headers) ==
    IF Len(headers) = Len(header_data) THEN headers
    ELSE LET cell == header_data[Len(headers) + 1]
         IN  HeaderNames(header_data,
                 Append(headers,
                     IF IsNonNull(cell) THEN Strip(Str(cell))
                     ELSE <<"C","o","l","u","m","n","_">>
                              \o IntToStr(Len(headers) + 1)))

\* lines 171-180: for col_idx, header in enumerate(headers)
RECURSIVE MapColumns(_, _, _, _)
MapColumns(record, headers, row, col_idx) ==
    IF col_idx >= Len(headers) THEN record
    ELSE LET header == headers[col_idx + 1]
             value == IF col_idx < Len(row)
                      THEN (IF row[col_idx + 1].kind # "None"
                            THEN Strip(Str(row[col_idx + 1]))
                            ELSE << >>)
                      ELSE << >>
         IN  MapColumns(DictSet(record, header, StrCell(value)),
                        headers, row, col_idx + 1)

\* lines 163-168
NewRecord(file_id, filename, row_idx, header_row) ==
    << <<K_file_id, StrCell(file_id)>>,
       <<K_filename, StrCell(filename)>>,
       <<K_row_index, IntCell(row_idx)>>,
       <<K_original_row, IntCell(header_row + 1 + row_idx)>> >>

\* line 183: some key not starting with '_' has a truthy, non-blank value
HasMeaningfulData(record) ==
    \E i \in 1..Len(record) :
        ~IsProvenanceKey(record[i][1]) /\ IsMeaningful(record[i][2])

\* lines 160-161 and 183-184: the row is skipped, or its record is kept
\* when it holds meaningful data
KeepRecord(structured_data, row, record) ==
    IF ~(\E j \in 1..Len(row) : IsMeaningful(row[j]))
    THEN structured_data                                      \* line 161
    ELSE IF HasMeaningfulData(record)
         THEN Append(structured_data, record)                 \* line 184
         ELSE structured_data

\* lines 158-184: for row_idx, row in enumerate(data_rows)
RECURSIVE DataLoop(_, _, _, _, _, _, _)
DataLoop(data_rows, row_idx, headers, file_id, filename, header_row, structured_data) ==
    IF row_idx >= Len(data_rows) THEN structured_data
    ELSE DataLoop(data_rows, row_idx + 1, headers, file_id, filename, header_row,
             KeepRecord(structured_data, data_rows[row_idx + 1],
                 MapColumns(NewRecord(file_id, filename, row_idx, header_row),
                            headers, data_rows[row_idx + 1], 0)))

\* lines 186-196
FileResult(filename, file_id, header_row, headers, structured_data) ==
    [status |-> "success",
     filename |-> filename,
     file_id |-> file_id,
     data |-> structured_data,
     columns |-> headers,
     header_row |-> header_row,
     rows_deleted_above_header |-> header_row,
     row_count |-> Len(structured_data),
     column_count |-> Len(headers)]

\* lines 154-196, with the header names in hand
NormalizeRows(raw_data, filename, file_id, header_row, headers) ==
    Return(FileResult(filename, file_id, header_row, headers,
               DataLoop(SubSeq(raw_data, header_row + 2, Len(raw_data)), 0,
                        headers, file_id, filename, header_row, << >>)))

\* lines 142-152, with the locator's answer h in hand
NormalizeFrom(raw_data, filename, file_id, h) ==
    IF h.via = "none"
    THEN Raise("ValueError", "Could not detect header row")   \* line 143
    ELSE NormalizeRows(raw_data, filename, file_id, h.index,
                       HeaderNames(raw_data[h.index + 1], << >>))

\* lines 138-196: from the parsed grid to the File Result
NormalizeGrid(raw_data, filename, file_id) ==
    NormalizeFrom(raw_data, filename, file_id, FindHeader(raw_data))

(***************************************************************************)
(* The files a caller can name.  A path is a str; a handle is the object   *)
(* test_processor.py (open(..., "rb")) and local_ui.py (FileWrapper) hand  *)
(* to process_files.                                                       *)
(***************************************************************************)
P_sales == <<"d","/","a",".","c","s","v">>
P_reserved == <<"r",".","c","s","v">>
P_empty == <<"e",".","x","l","s","x">>
P_corrupt == <<"b",".","x","l","s","x">>
P_missing == <<"m",".","c","s","v">>

T_Sl == <<"S","l">>
T_Com == <<"C","o","m">>
T_id1 == <<"1","5","2","3","4">>
T_id2 == <<"1","5","2","3","5">>

G_sales ==
    << <<StrCell(T_Sl), StrCell(T_Com)>>,
       <<StrCell(T_id1), IntCell(1200)>>,
       <<NaNCell, NaNCell>>,
       <<StrCell(T_id2), NaNCell>> >>

G_reserved ==
    << <<StrCell(K_file_id), StrCell(T_Sl)>>,
       <<StrCell(<<"z">>), IntCell(7)>> >>

\* a staff sheet: an identifier that contains another one, a blank
\* commission, a name in two letter cases and a missing organization
P_staff == <<"s",".","c","s","v">>

G_staff ==
    << <<StrCell(T_Sl), StrCell(<<"N","a","m","e">>), StrCell(<<"C","o","m",
        "m","i","s","s","i","o","n">>),
         StrCell(<<"O","r","g","a","n","i","z","a","t","i","o","n">>)>>,
       <<StrCell(<<"1","1","5","2","3","4">>), StrCell(<<"B","o",
           "b">>), StrCell(<<" ">>), StrCell(<<"A","c","m","e">>)>>,
       <<StrCell(T_id1), StrCell(<<"A","l","i","c","e">>), StrCell(<<"1","2",
           "0","0">>),
         StrCell(<<"A","c","m","e"," ","O","r","g","a","n","i","z","a","t",
             "i","o","n">>)>>,
       <<StrCell(T_id2), StrCell(<<"a","l","i","c","e"," ","R","o",
           "y">>), StrCell(<<"9","0","0">>), NaNCell>> >>

\* a ledger a.csv in the folder itself, the basename of d/a.csv: six data
\* rows, identifiers in either column, padded, too short or absent
P_ledger == <<"a",".","c","s","v">>

G_ledger ==
    << <<StrCell(T_Sl), StrCell(<<"R","e","f">>)>>,
       <<StrCell(<<"1","5","2","4","0">>), StrCell(<<"x">>)>>,
       <<StrCell(<<"a","b","c">>), StrCell(<<"1","2","3","4","5","6">>)>>,
       <<StrCell(<<"1","2">>), StrCell(<<"y">>)>>,
       <<StrCell(<<" ","9","0","0","1"," ">>), StrCell(<<"8","8","8","8">>)>>,
       <<StrCell(<<"7","7">>), NaNCell>>,
       <<StrCell(<<"7","7","7","7">>), StrCell(<<"z">>)>> >>

Disk ==
    (P_sales :> [state |-> "ok", grid |-> G_sales])
    @@ (P_ledger :> [state |-> "ok", grid |-> G_ledger])
    @@ (P_staff :> [state |-> "ok", grid |-> G_staff])
    @@ (P_reserved :> [state |-> "ok", grid |-> G_reserved])
    @@ (P_empty :> [state |-> "ok", grid |-> << >>])
    @@ (P_corrupt :> [state |-> "corrupt", grid |-> << >>])
    @@ (P_missing :> [state |-> "missing", grid |-> << >>])

PathInput(p) == [kind |-> "path", path |-> p]
\* a handle opened on the sales file
HandleInput == [kind |-> "handle", path |-> P_sales]

Inputs == {PathInput(p) : p \in DOMAIN Disk} \cup {HandleInput}

\* lines 125-196
ProcessSingleFile(file_path, file_id) ==
    IF file_path.kind = "handle"
    THEN Raise("TypeError", "expected str, bytes or os.PathLike object")  \* line 125
    ELSE LET filename == Basename(file_path.path)
             file == Disk[file_path.path]
         IN  CASE file.state = "missing" ->
                      Raise("FileNotFoundError", "File not found")         \* line 134
               [] file.state = "corrupt" ->
                      Raise("IOError", "Error reading file")               \* line 136
               [] OTHER -> NormalizeGrid(file.grid, filename, file_id)


(***************************************************************************)
(* process_files, lines 92-121                                             *)
(***************************************************************************)
\* line 99: f"file_{i+1}"
FileId(i) == <<"f","i","l","e","_">> \o IntToStr(i + 1)

\* lines 102-115, with the outcome of _process_single_file in hand.  A handle
\* makes os.path.basename raise inside the except block too (line 113): that
\* TypeError leaves process_files.
FileStepWith(results, records, file_path, file_id, result) ==
    IF result.outcome = "return"
    THEN [raised |-> FALSE,
          results |-> DictSet(results, file_id, result.value),
          records |-> IF result.value.status = "success"
                      THEN records \o result.value.data
                      ELSE records]
    ELSE IF file_path.kind = "handle"
         THEN [raised |-> TRUE, results |-> results, records |-> records]
         ELSE [raised |-> FALSE,
               results |-> DictSet(results, file_id,
                               [status |-> "error",
                                filename |-> Basename(file_path.path),
                                error |-> [type |-> result.type,
                                           msg |-> result.msg]]),
               records |-> records]

\* lines 98-115: one turn of the loop over file_paths
FileStep(results, records, file_path, i) ==
    FileStepWith(results, records, file_path, FileId(i),
                 ProcessSingleFile(file_path, FileId(i)))

\* lines 97-115: for i, file_path in enumerate(file_paths)
RECURSIVE FileLoop(_, _, _, _)
RECURSIVE FileLoopAfter(_, _, _)
FileLoopAfter(file_paths, i, step) ==
    IF step.raised THEN step
    ELSE FileLoop(file_paths, i + 1, step.results, step.records)

FileLoop(file_paths, i, results, records) ==
    IF i >= Len(file_paths)
    THEN [raised |-> FALSE, results |-> results, records |-> records]
    ELSE FileLoopAfter(file_paths, i,
             FileStep(results, records, file_paths[i + 1], i))

(***************************************************************************)
(* _build_rag_system, lines 198-238                                        *)
(***************************************************************************)
NoStore == [kind |-> "None", docs |-> << >>]
Chroma(documents) == [kind |-> "Chroma", docs |-> documents]

RECURSIVE JoinLines(_)
JoinLines(parts) ==
    IF Len(parts) = 0 THEN << >>
    ELSE IF Len(parts) = 1 THEN parts[1]
    ELSE parts[1] \o <<"\n">> \o JoinLines(Tail(parts))

\* lines 213-215: the "key: value" lines of a record
RECURSIVE ContentParts(_, _)
ContentParts(record, i) ==
    IF i > Len(record) THEN << >>
    ELSE LET key == record[i][1]
             value == record[i][2]
         IN  (IF ~IsProvenanceKey(key) /\ IsMeaningful(value)
              THEN << key \o <<":"," ">> \o Str(value) >>
              ELSE << >>)
             \o ContentParts(record, i + 1)

\* lines 211-217 (and 277-283)
Render(record) ==
    JoinLines(<< <<"R","e","c","o","r","d"," ","f","r","o","m"," ">>
                     \o Str(DictGet(record, K_filename)) \o <<":">> >>
              \o ContentParts(record, 1))

\* lines 219-226
Document(record) ==
    [page_content |-> Render(record),
     metadata |-> [filename |-> DictGet(record, K_filename),
                   file_id |-> DictGet(record, K_file_id),
                   row_index |-> DictGet(record, K_row_index)]]

\* lines 208-227
Documents(records) == [i \in 1..Len(records) |-> Document(records[i])]

\* lines 30-43: embed_ok says whether the model loads
InitializeEmbeddings(emb, embed_ok) ==
    IF emb = "None" THEN (IF embed_ok THEN "model" ELSE "None") ELSE emb

\* lines 198-238: chroma_ok says whether Chroma.from_documents returns
BuildWith(e, documents, store, chroma_ok) ==
    [embeddings |-> e,
     vector_store |->
         IF e = "None" THEN store                               \* line 206
         ELSE IF documents = << >> THEN store                   \* line 229
         ELSE IF chroma_ok THEN Chroma(documents)               \* line 230
         ELSE NoStore]                                          \* line 238

BuildRagSystem(records, emb, store, embed_ok, chroma_ok) ==
    BuildWith(InitializeEmbeddings(emb, embed_ok), Documents(records),
              store, chroma_ok)

(***************************************************************************)
(* Text search in a question: the two regular expressions of query (lines  *)
(* 302 and 308), the "in" test of str and str.split()                      *)
(***************************************************************************)
IdMinLen == 4
IdMaxLen == 6
\* k of similarity_search (line 379)
SimilarityK == 3
\* k of _simple_text_search (line 271)
TextSearchK == 3

\* sub in s
Contains(s, sub) ==
    \E i \in 0..(Len(s) - Len(sub)) : SubSeq(s, i + 1, i + Len(sub)) = sub

\* \d
IsDigit(c) == \E i \in 1..Len(Digits) : Digits[i] = c

\* \w
IsWordChar(c) ==
    \/ IsDigit(c)
    \/ c = "_"
    \/ \E i \in 1..Len(UpperCase) : UpperCase[i] = c \/ LowerCase[i] = c

\* the length of the run of digits that starts at position i
RECURSIVE DigitRun(_, _)
DigitRun(s, i) ==
    IF i > Len(s) \/ ~IsDigit(s[i]) THEN 0 ELSE 1 + DigitRun(s, i + 1)

\* \b(\d{4,6})\b matches at i: a word boundary, 4 to 6 digits, a word boundary
IdAt(s, i) ==
    /\ IsDigit(s[i])
    /\ (i = 1 \/ ~IsWordChar(s[i - 1]))
    /\ DigitRun(s, i) >= IdMinLen
    /\ DigitRun(s, i) <= IdMaxLen
    /\ (i + DigitRun(s, i) > Len(s) \/ ~IsWordChar(s[i + DigitRun(s, i)]))

NoMatch == [found |-> FALSE, text |-> << >>]
Match(text) == [found |-> TRUE, text |-> text]

\* line 302: re.search(r'\b(\d{4,6})\b', question), group 1 of the leftmost
\* match
IdMatch(question) ==
    IF \E i \in 1..Len(question) : IdAt(question, i)
    THEN LET i == CHOOSE i \in 1..Len(question) :
                      /\ IdAt(question, i)
                      /\ \A j \in 1..(i - 1) : ~IdAt(question, j)
         IN  Match(SubSeq(question, i, i + DigitRun(question, i) - 1))
    ELSE NoMatch

\* the first position at or after i that holds no whitespace
RECURSIVE SkipSpace(_, _)
SkipSpace(s, i) ==
    IF i <= Len(s) /\ s[i] \in Whitespace THEN SkipSpace(s, i + 1) ELSE i

\* the first position at or after i that holds "?", or Len(s) + 1
RECURSIVE UpToQuestionMark(_, _)
UpToQuestionMark(s, i) ==
    IF i <= Len(s) /\ s[i] # "?" THEN UpToQuestionMark(s, i + 1) ELSE i

\* {search_id}\s*-\s*([^?]+) matches at j: the id, a dash after optional
\* whitespace, and at least one character other than "?" after the dash
NameAt(s, id, j) ==
    /\ j + Len(id) - 1 <= Len(s)
    /\ SubSeq(s, j, j + Len(id) - 1) = id
    /\ SkipSpace(s, j + Len(id)) <= Len(s)
    /\ s[SkipSpace(s, j + Len(id))] = "-"
    /\ UpToQuestionMark(s, SkipSpace(s, j + Len(id)) + 1)
           > SkipSpace(s, j + Len(id)) + 1

\* group 1 of the match at j, stripped (line 309).  The group is what lies
\* between the whitespace after the dash and the next "?"; when nothing lies
\* there the group is the last whitespace character, and strips to ''.
NameGroup(s, id, j) ==
    Strip(SubSeq(s, SkipSpace(s, j + Len(id)) + 1,
                 UpToQuestionMark(s, SkipSpace(s, j + Len(id)) + 1) - 1))

\* lines 308-309: search_name, or None (NoMatch)
NameMatch(question, search_id) ==
    IF \E j \in 1..Len(question) : NameAt(question, search_id, j)
    THEN Match(NameGroup(question, search_id,
             CHOOSE j \in 1..Len(question) :
                 /\ NameAt(question, search_id, j)
                 /\ \A t \in 1..(j - 1) : ~NameAt(question, search_id, t)))
    ELSE NoMatch

\* str.split(): the whitespace-separated words, as the set any() ranges over
SplitWords(s) ==
    {SubSeq(s, ij[1], ij[2]) : ij \in
        {ij \in (1..Len(s)) \X (1..Len(s)) :
            /\ ij[1] <= ij[2]
            /\ \A t \in ij[1]..ij[2] : s[t] \notin Whitespace
            /\ (ij[1] = 1 \/ s[ij[1] - 1] \in Whitespace)
            /\ (ij[2] = Len(s) \/ s[ij[2] + 1] \in Whitespace)}}

(***************************************************************************)
(* find_exact_record, lines 240-269.  search_name is NoMatch for None.     *)
(***************************************************************************)
\* lines 246-264: one record
RecordMatches(record, search_id, search_name) ==
    /\ \E i \in 1..Len(record) :                              \* line 256
           /\ ~IsProvenanceKey(record[i][1])
           /\ Contains(Strip(Str(record[i][2])), search_id)
    /\ \/ ~search_name.found                                  \* line 247
       \/ /\ search_name.text # << >>                         \* line 260
          /\ \E i \in 1..Len(record) :
                 /\ ~IsProvenanceKey(record[i][1])
                 /\ Contains(Lower(Strip(Str(record[i][2]))),
                             Lower(search_name.text))

\* lines 244-269: the position of the first record that matches, 0 for None
RECURSIVE FindExactRecord(_, _, _, _)
FindExactRecord(records, i, search_id, search_name) ==
    IF i > Len(records) THEN 0
    ELSE IF RecordMatches(records[i], search_id, search_name) THEN i
    ELSE FindExactRecord(records, i + 1, search_id, search_name)

(***************************************************************************)
(* query, lines 296-399                                                    *)
(***************************************************************************)
\* lines 319-333, in the dict's order
FieldMappings ==
    << << <<"a","c"," ","n","o">>, << <<"A","c"," ","N","o">>, <<"A","c","c",
        "o","u","n","t"," ","N","o">>, <<"A","c","c","o","u","n","t"," ","N",
        "u","m","b","e","r">> >> >>,
       << <<"o","r","g","a","n","i","z","a","t","i","o","n">>, << <<"O","r",
           "g","a","n","i","z","a","t","i","o","n">>, <<"O","r","g">>, <<"C",
           "o","m","p","a","n","y">> >> >>,
       << <<"d","e","s","i","g","n","a","t","i","o","n">>, << <<"D","e","s",
           "i","g","n","a","t","i","o","n">>, <<"P","o","s","i","t","i","o",
           "n">>, <<"T","i","t","l","e">> >> >>,
       << <<"j","o","b"," ","d","u","r","a","t","i","o","n">>, << <<"J","o",
           "b"," ","D","u","r","a","t","i","o","n">>, <<"D","u","r","a","t",
           "i","o","n">>, <<"S","e","r","v","i","c","e">> >> >>,
       << <<"t","o","t","a","l"," ","b","u","s","i","n","e","s","s">>,
          << <<"T","o","t","a","l"," ","B","u","s","i","n","e","s",
              "s">>, <<"T","o","t","a","l"," ","P","r","e","m","i","u",
              "m">>, <<"B","u","s","i","n","e","s","s">> >> >>,
       << <<"c","o","m","m","i","s","s","i","o","n">>, << <<"C","o","m","m",
           "i","s","s","i","o","n">>, <<"C","o","m">> >> >>,
       << <<"p","f">>, << <<"P","F">>, <<"P","r","o","v","i","d","e","n","t",
           " ","F","u","n","d">> >> >>,
       << <<"a","l","l","o","w","a","n","c","e">>, << <<"A","l","l","o","w",
           "a","n","c","e">>, <<"A","l","l","o","w">> >> >>,
       << <<"n","e","t"," ","p","a","y">>, << <<"N","e","t"," ","P","a",
           "y">>, <<"N","e","t">>, <<"P","a","y">> >> >>,
       << <<"t","d","s">>, << <<"T","D","S">>, <<"T","a","x">> >> >>,
       << <<"t","o","t","a","l"," ","p","r","e","m","i","u","m">>, << <<"T",
           "o","t","a","l"," ","P","r","e","m","i","u","m">>, <<"P","r","e",
           "m","i","u","m">>, <<"T","o","t","a","l"," ","P","R">> >> >>,
       << <<"a","g","e","n","t"," ","n","a","m","e">>, << <<"A","g","e","n",
           "t"," ","N","a","m","e">>, <<"N","a","m","e">> >> >>,
       << <<"s","l">>, << <<"S","l">>, <<"S","e","r","i","a","l">>, <<"I",
           "D">> >> >> >>

\* lines 340-343: the first alias that is a key of the record
RECURSIVE FirstPresent(_, _, _)
FirstPresent(record, possible_columns, c) ==
    IF c > Len(possible_columns) THEN NoMatch
    ELSE IF DictHas(record, possible_columns[c])
         THEN Match(possible_columns[c])
         ELSE FirstPresent(record, possible_columns, c + 1)

\* lines 336-345: requested_field, NoMatch for None
RECURSIVE RequestedField(_, _, _)
RequestedField(record, question_lower, m) ==
    IF m > Len(FieldMappings) THEN NoMatch
    ELSE IF /\ Contains(question_lower, FieldMappings[m][1])
            /\ FirstPresent(record, FieldMappings[m][2], 1).found
         THEN FirstPresent(record, FieldMappings[m][2], 1)
         ELSE RequestedField(record, question_lower, m + 1)

\* the character U+2022 of line 365
Bullet == <<"U+2022">>

\* lines 349-350, 359-360 and 374: the name is added when it is not ''
NamePart(lead, search_name) ==
    IF search_name.found /\ search_name.text # << >>
    THEN lead \o search_name.text
    ELSE << >>

\* the field answer without its source line
FieldAnswer_NoSource(record, requested_field, search_id, search_name) ==
    <<"T","h","e"," ">> \o requested_field \o <<" ","o","f"," ">> \o search_id
    \o NamePart(<<" ","-"," ">>, search_name)
    \o <<" ","i","s"," ">> \o Str(DictGet(record, requested_field)) \o <<".">>

\* lines 348-355
FieldAnswer(record, requested_field, search_id, search_name) ==
    <<"T","h","e"," ">> \o requested_field \o <<" ","o","f"," ">> \o search_id
    \o NamePart(<<" ","-"," ">>, search_name)
    \o <<" ","i","s"," ">> \o Str(DictGet(record, requested_field)) \o <<".">>
    \o <<"\n","\n","(","S","o","u","r","c","e",":",
        " ">> \o Str(DictGet(record, K_filename)) \o <<")">>

\* lines 363-365
RECURSIVE BulletLines(_, _)
BulletLines(record, i) ==
    IF i > Len(record) THEN << >>
    ELSE (IF ~IsProvenanceKey(record[i][1]) /\ IsMeaningful(record[i][2])
          THEN Bullet \o <<" ">> \o record[i][1] \o <<":",
              " ">> \o Str(record[i][2]) \o <<"\n">>
          ELSE << >>)
         \o BulletLines(record, i + 1)

\* line 370
FieldNote(requested_field) ==
    <<"\n","\n","N","o","t","e",":"," ","T","h","e"," ","r","e","q","u","e",
        "s","t","e","d"," ","f","i","e","l","d"," ","'">> \o requested_field
    \o <<"'"," ","w","a","s"," ","n","o","t"," ","f","o","u","n","d"," ","i",
        "n"," ","t","h","i","s"," ","r","e","c","o","r","d",".">>

\* lines 358-372
AllInfoAnswer(record, requested, search_id, search_name) ==
    <<"F","o","u","n","d"," ","r","e","c","o","r","d"," ","f","o","r",
        " ">> \o search_id \o NamePart(<<" ","-"," ">>, search_name) \o <<":",
        "\n","\n">>
    \o BulletLines(record, 1)
    \o <<"\n","(","S","o","u","r","c","e",":",
        " ">> \o Str(DictGet(record, K_filename)) \o <<")">>
    \o (IF requested.found THEN FieldNote(requested.text) ELSE << >>)

\* lines 347-372
AnswerForRecord(record, requested, search_id, search_name) ==
    IF requested.found /\ Truthy(DictGet(record, requested.text))
    THEN FieldAnswer(record, requested.text, search_id, search_name)
    ELSE AllInfoAnswer(record, requested, search_id, search_name)

\* line 374
NoRecordAnswer(search_id, search_name) ==
    <<"N","o"," ","r","e","c","o","r","d"," ","f","o","u","n","d"," ","f","o",
        "r"," ","I","D"," ">> \o search_id
    \o NamePart(<<" ","w","i","t","h"," ","n","a","m","e",
        " ">>, search_name) \o <<" ","i","n"," ","t","h","e"," ","l","o","a",
        "d","e","d"," ","d","a","t","a",".">>

\* line 299
NoDataAnswer == <<"N","o"," ","d","a","t","a"," ","a","v","a","i","l","a","b",
    "l","e","."," ","P","l","e","a","s","e"," ","p","r","o","c","e","s","s",
    " ","f","i","l","e","s"," ","f","i","r","s","t",".">>

\* lines 384, 392, 399
NoRelevantAnswer == <<"N","o"," ","r","e","l","e","v","a","n","t"," ","i","n",
    "f","o","r","m","a","t","i","o","n"," ","f","o","u","n","d"," ","f","o",
    "r"," ","y","o","u","r"," ","q","u","e","r","y",".">>

\* lines 382, 390, 397
FoundPrefix == <<"B","a","s","e","d"," ","o","n"," ","t","h","e"," ","d","a",
    "t","a",","," ","h","e","r","e","'","s"," ","w","h","a","t"," ","I"," ",
    "f","o","u","n","d",":","\n","\n">>

(***************************************************************************)
(* _simple_text_search, lines 271-294                                      *)
(***************************************************************************)
\* line 286: some word of the question is in the lowercased value
FieldMatches(value, words) ==
    \E word \in words : Contains(Lower(Strip(Str(value))), word)

\* lines 278-287: one is added per non-empty field that matches
MatchScore(record, words) ==
    Cardinality({i \in 1..Len(record) :
        /\ ~IsProvenanceKey(record[i][1])
        /\ IsMeaningful(record[i][2])
        /\ FieldMatches(record[i][2], words)})

\* lines 280-283: the "key: value" lines of a record
RECURSIVE TextParts(_, _)
TextParts(record, i) ==
    IF i > Len(record) THEN << >>
    ELSE (IF ~IsProvenanceKey(record[i][1]) /\ IsMeaningful(record[i][2])
          THEN << record[i][1] \o <<":"," ">> \o Strip(Str(record[i][2])) >>
          ELSE << >>)
         \o TextParts(record, i + 1)

\* lines 277 and 290: "\n".join(content_parts)
TextOf(record) ==
    JoinLines(<< <<"R","e","c","o","r","d"," ","f","r","o","m",
        " ">> \o Str(DictGet(record, K_filename)) \o <<":">> >>
              \o TextParts(record, 1))

\* lines 276-290: the (match_score, text) pairs of the records that score
RECURSIVE ScoredRecords(_, _, _)
ScoredRecords(records, i, words) ==
    IF i > Len(records) THEN << >>
    ELSE (IF MatchScore(records[i], words) > 0
          THEN << [score |-> MatchScore(records[i], words),
                   record |-> i,
                   content |-> TextOf(records[i])] >>
          ELSE << >>)
         \o ScoredRecords(records, i + 1, words)

\* the results without the one at position i
Without(results, i) ==
    SubSeq(results, 1, i - 1) \o SubSeq(results, i + 1, Len(results))

\* the results left in their order of insertion
SortByScore_Unsorted(results) == results

\* line 293: results.sort(key=lambda x: x[0], reverse=True), a stable sort:
\* the highest score first, equal scores in their order of insertion
RECURSIVE SortByScore(_)
SortByScore(results) ==
    IF results = << >> THEN << >>
    ELSE LET first == CHOOSE i \in 1..Len(results) :
                          /\ \A j \in 1..Len(results) :
                                 results[j].score <= results[i].score
                          /\ \A j \in 1..(i - 1) :
                                 results[j].score < results[i].score
         IN  << results[first] >> \o SortByScore(Without(results, first))

\* seq[:k]
Take(seq, k) == SubSeq(seq, 1, IF Len(seq) < k THEN Len(seq) ELSE k)

\* lines 273-294; the position of the record is kept beside its text
SimpleTextSearch(records, question) ==
    Take(SortByScore(ScoredRecords(records, 1, SplitWords(Lower(question)))),
         TextSearchK)

(***************************************************************************)
(* The index called from query, lines 377-392.  What similarity_search     *)
(* ranks first is the library's choice: search names one of its outcomes.  *)
(***************************************************************************)
SearchOutcomes == {"raise", "none", "forward", "reverse"}

Reverse(seq) == [i \in 1..Len(seq) |-> seq[Len(seq) + 1 - i]]

\* line 379: self.vector_store.similarity_search(question, k=3)
SimilaritySearch(store, search) ==
    [raised |-> search = "raise",
     docs |-> CASE search = "forward" -> Take(store.docs, SimilarityK)
                [] search = "reverse" -> Take(Reverse(store.docs), SimilarityK)
                [] OTHER -> << >>]

\* "\n\n".join(...), line 381
RECURSIVE JoinParagraphs(_)
JoinParagraphs(parts) ==
    IF Len(parts) = 0 THEN << >>
    ELSE IF Len(parts) = 1 THEN parts[1]
    ELSE parts[1] \o <<"\n","\n">> \o JoinParagraphs(Tail(parts))

\* lines 380-384
VectorAnswer(relevant_docs) ==
    IF relevant_docs # << >>
    THEN FoundPrefix \o JoinParagraphs([i \in 1..Len(relevant_docs) |->
                                          relevant_docs[i].page_content])
    ELSE NoRelevantAnswer

\* the failure of similarity_search swallowed without the keyword search
AnswerAfterSearchError_Silent(results) == NoRelevantAnswer

\* lines 389-392: the answer after similarity_search raised
AnswerAfterSearchError(results) ==
    IF results # << >> THEN FoundPrefix \o results[1].content
    ELSE NoRelevantAnswer

\* the answer with the text of every result instead of the first
AnswerWithoutIndex_AllTexts(results) ==
    IF results # << >>
    THEN FoundPrefix \o JoinParagraphs([i \in 1..Len(results) |->
                                          results[i].content])
    ELSE NoRelevantAnswer

\* lines 396-399: the answer when there is no index
AnswerWithoutIndex(results) ==
    IF results # << >> THEN FoundPrefix \o results[1].content
    ELSE NoRelevantAnswer

\* What a call of query did: the statement it returned from (via), the
\* answer, the position in the store of the record find_exact_record
\* returned (0 for none), whether similarity_search was called and whether
\* _simple_text_search was.
QueryResult(via, value, record, searched, scored) ==
    [via |-> via, value |-> value, record |-> record,
     searched |-> searched, scored |-> scored]

\* lines 314-374, with the record found
ExactResult(records, question, search_id, search_name, r) ==
    IF r = 0
    THEN QueryResult("no_record", NoRecordAnswer(search_id, search_name),
                     0, FALSE, FALSE)
    ELSE QueryResult("exact",
             AnswerForRecord(records[r],
                 RequestedField(records[r], Lower(question), 1),
                 search_id, search_name),
             r, FALSE, FALSE)

\* lines 312-374, with search_name extracted
ExactLookupWith(records, question, search_id, search_name) ==
    ExactResult(records, question, search_id, search_name,
                FindExactRecord(records, 1, search_id, search_name))

\* lines 305-374
ExactLookup(records, question, search_id) ==
    ExactLookupWith(records, question, search_id,
                    NameMatch(question, search_id))

\* lines 378-392, with the outcome of similarity_search
VectorPath(records, question, found) ==
    IF found.raised
    THEN QueryResult("keyword_after_error",
             AnswerAfterSearchError(SimpleTextSearch(records, question)),
             0, TRUE, TRUE)
    ELSE QueryResult("vector", VectorAnswer(found.docs), 0, TRUE, FALSE)

\* lines 302-399, with id_match
QueryWith(records, store, question, search, id_match) ==
    IF id_match.found
    THEN ExactLookup(records, question, id_match.text)
    ELSE IF store.kind # "None"                                \* line 377
         THEN VectorPath(records, question, SimilaritySearch(store, search))
         ELSE QueryResult("keyword",
                  AnswerWithoutIndex(SimpleTextSearch(records, question)),
                  0, FALSE, TRUE)

\* query without its no-data guard
QueryCall_Unguarded(records, store, question, search) ==
    QueryWith(records, store, question, search, IdMatch(question))

\* query(question), lines 296-399, on the store records and the index store
QueryCall(records, store, question, search) ==
    IF records = << >>
    THEN QueryResult("no_data", NoDataAnswer, 0, FALSE, FALSE)   \* line 299
    ELSE QueryWith(records, store, question, search, IdMatch(question))

(***************************************************************************)
(* The processor driven by one caller at a time (src/app.py,               *)
(* src/test_processor.py)                                                  *)
(***************************************************************************)
\* What a caller passes: src/app.py lists a folder and passes the paths
\* found (246-260 of local_ui.py and app.py:151 list each file once);
\* test_processor.py:44 and local_ui.py:302 pass one handle per listed file.
Batches ==
    {b \in UNION {[1..n -> Inputs] : n \in 0..MaxBatch} :
        /\ \A i, j \in DOMAIN b : b[i].kind = b[j].kind
        /\ \A i, j \in DOMAIN b :
               (b[i].kind = "path" /\ i # j) => b[i] # b[j]}

\* process_files on a fresh results mapping and a reset store (lines 94-115),
\* per batch; @@ with the empty function leaves the function as it is and
\* has it tabulated once
Runs == [b \in Batches |-> FileLoop(b, 0, << >>, << >>)] @@ << >>

\* the documents _build_rag_system makes of a batch's records (lines
\* 208-227), per batch
RunDocuments == [b \in Batches |-> Documents(Runs[b].records)] @@ << >>

\* the return value of a call that returned is the object processed_files
\* holds (lines 117, 121)
NoCall == [file_paths |-> << >>, outcome |-> "none"]

NoThread == [pc |-> "idle"]

NoRet == [op |-> "none"]

NoCommit == << << >>, NoStore >>

InitProcessor ==
    /\ processed_files = << >>
    /\ all_records = << >>
    /\ embeddings = "None"
    /\ vector_store = NoStore
    /\ conversation_history = << >>

Init ==
    /\ InitProcessor
    /\ call = NoCall
    /\ arg = << >>
    /\ ret = NoRet
    /\ ing = NoThread
    /\ qry = NoThread
    /\ committed = NoCommit

\* lines 95-121, with the loop's outcome run and the rebuilt index in hand.
\* embed_ok and chroma_ok are fixed where the code does not consult them.
ProcessFilesWith(file_paths, run, built, embed_ok, chroma_ok) ==
    /\ all_records' = run.records                              \* lines 95, 106
    /\ IF run.raised
       THEN /\ embed_ok /\ chroma_ok
            /\ call' = [file_paths |-> file_paths, outcome |-> "raised"]
            /\ UNCHANGED <<processed_files, embeddings, vector_store>>
       ELSE /\ embeddings = "model" => embed_ok
            /\ (built.embeddings = "None" \/ run.records = << >>) => chroma_ok
            /\ processed_files' = run.results                   \* line 117
            /\ embeddings' = built.embeddings                   \* line 118
            /\ vector_store' = built.vector_store
            /\ call' = [file_paths |-> file_paths, outcome |-> "returned"]
    /\ ret' = NoRet                   \* no answer of query() is the last return
    /\ UNCHANGED <<arg, ing, qry, committed, conversation_history>>

\* process_files(file_paths), the whole call, lines 92-121
ProcessFiles(file_paths, embed_ok, chroma_ok) ==
    ProcessFilesWith(file_paths, Runs[file_paths],
        BuildWith(InitializeEmbeddings(embeddings, embed_ok),   \* line 118
                  RunDocuments[file_paths], vector_store, chroma_ok),
        embed_ok, chroma_ok)

Next ==
    \E file_paths \in Batches, embed_ok \in BOOLEAN, chroma_ok \in BOOLEAN :
        ProcessFiles(file_paths, embed_ok, chroma_ok)

Spec == Init /\ [][Next]_vars


(***************************************************************************)
(* The classifier applied to one row                                       *)
(***************************************************************************)
T_nan == <<"n","a","n">>
T_A == <<"A">>
T_x == <<"x">>

RowCells ==
    {NoneCell, NaNCell, IntCell(0), IntCell(1),
     StrCell(<< >>), StrCell(<<" ">>), StrCell(T_nan), StrCell(<<"N","a","N">>),
     StrCell(<<"N","o","n","e">>), StrCell(<<" ">> \o T_nan), StrCell(T_A)}

Rows == UNION {[1..n -> RowCells] : n \in 0..MaxRowLen}

InitRow ==
    /\ InitProcessor
    /\ call = NoCall
    /\ arg \in Rows
    /\ ret = NoRet
    /\ ing = NoThread
    /\ qry = NoThread
    /\ committed = NoCommit

\* _has_mixed_values(arg)
CallHasMixedValues ==
    /\ ret = NoRet
    /\ ret' = [op |-> "_has_mixed_values", value |-> HasMixedValues(arg)]
    /\ UNCHANGED <<processed_files, all_records, embeddings, vector_store,
                   call, arg, ing, qry, committed, conversation_history>>

NextRow == CallHasMixedValues

SpecRow == InitRow /\ [][NextRow]_vars

(***************************************************************************)
(* The header locator and the normalizer applied to one parsed grid        *)
(***************************************************************************)
\* how an empty spreadsheet cell reaches the code: None in a caller's list,
\* NaN in df_raw.values.tolist()
EmptyCells == {NoneCell, NaNCell}

\* k blank rows of width w, the banner above a table
Banner(k, w, e) == [i \in 1..k |-> [j \in 1..w |-> e]]

\* banner heights around the fallback's window (line 64)
BannerHeights == {0, 1, FallbackWindow - 1, FallbackWindow}

\* the grids of width w with n rows of blank or filled cells below a banner
\* of k blank rows
GridsOf(w, e, k, n) ==
    {Banner(k, w, e) \o g : g \in [1..n -> [1..w -> {e, StrCell(T_A)}]]}

\* the grids spec.md section 8 names
FixtureGrid ==
    << <<StrCell(<<"A">>), NoneCell>>,
       <<StrCell(<<"B">>), StrCell(<<"C">>)>>,
       <<StrCell(<<"D">>), NoneCell>>,
       <<IntCell(1), IntCell(2)>>,
       <<IntCell(3), IntCell(4)>> >>

TitleGrid ==
    << <<StrCell(<<"T","i","t","l","e">>), NoneCell, NoneCell>>,
       <<StrCell(T_Sl), StrCell(<<"N","a","m","e">>), StrCell(<<"P","r">>)>>,
       <<StrCell(<<"1">>), StrCell(<<"A","l","i","c","e">>), StrCell(<<"5","0","0">>)>>,
       <<StrCell(<<"2">>), StrCell(<<"B","o","b">>), StrCell(<< >>)>> >>

TenFullRows == [i \in 1..FallbackWindow |-> <<StrCell(T_A), StrCell(T_A)>>]

\* the header row and the blank row spec.md section 8 names, above two rows
\* of data
HeaderGrid ==
    << <<StrCell(<<"N","a","m","e">>), StrCell(<< >>), StrCell(<<"A","g","e">>)>>,
       <<StrCell(<<" "," ">>), StrCell(<< >>), NoneCell>>,
       <<StrCell(<<"A","l">>), StrCell(<<" ","x"," ">>), IntCell(30)>>,
       <<StrCell(<<"B","o">>), NoneCell, IntCell(0)>> >>

\* a sheet whose first column is headed by the text of a reserved key
OffsetGrid ==
    << <<StrCell(K_row_index), StrCell(T_Sl)>>,
       <<StrCell(<<"z">>), IntCell(7)>>,
       <<StrCell(<<"y">>), IntCell(8)>> >>

\* three rows led by a blank text above three rows led by a missing value
BlankLedGrid ==
    << <<StrCell(<<" ">>), StrCell(T_x)>>,
       <<StrCell(<<" ">>), StrCell(T_x)>>,
       <<StrCell(<<" ">>), StrCell(T_x)>>,
       <<NaNCell, StrCell(T_A)>>,
       <<NaNCell, StrCell(T_A)>>,
       <<NaNCell, StrCell(T_A)>> >>

NamedGrids ==
    {FixtureGrid, TitleGrid, TenFullRows, HeaderGrid, OffsetGrid, BlankLedGrid}

InitGrid ==
    /\ InitProcessor
    /\ call = NoCall
    /\ \/ arg \in NamedGrids
       \/ \E w \in 1..MaxCols, e \in EmptyCells, k \in BannerHeights,
              n \in 0..MaxRows :
                  n * w <= MaxCells /\ arg \in GridsOf(w, e, k, n)
    /\ ret = NoRet
    /\ ing = NoThread
    /\ qry = NoThread
    /\ committed = NoCommit

\* find_header_with_sequential_pattern(arg)
CallFindHeader ==
    /\ ret = NoRet
    /\ ret' = [op |-> "find_header", value |-> FindHeader(arg)]
    /\ UNCHANGED <<processed_files, all_records, embeddings, vector_store,
                   call, arg, ing, qry, committed, conversation_history>>

\* _process_single_file on a file that parses to arg (lines 138-196)
CallProcessSingleFile ==
    /\ ret = NoRet
    /\ ret' = [op |-> "_process_single_file",
               value |-> NormalizeGrid(arg, Basename(P_sales), FileId(0))]
    /\ UNCHANGED <<processed_files, all_records, embeddings, vector_store,
                   call, arg, ing, qry, committed, conversation_history>>

(***************************************************************************)
(* preprocess_file of src/test_processor.py, lines 8-37: the rows above    *)
(* the first three rows that pandas finds mixed are removed before the     *)
(* processor sees the file                                                 *)
(***************************************************************************)
\* Series.isnull() of one cell: None and NaN; blank text is not null
IsNull(cell) == cell.kind \in {"None", "float"}

\* lines 22-24: row.isnull().any() and row.notnull().any()
AnyNullAnyNotNull(row) ==
    /\ \E j \in 1..Len(row) : IsNull(row[j])
    /\ \E j \in 1..Len(row) : ~IsNull(row[j])

\* lines 16-28: for i in range(len(df) - 2), the first i whose three rows
\* pass the test; len(df) when the loop ends without a break
RECURSIVE PreprocessScan(_, _)
PreprocessScan(df, i) ==
    IF i + 2 >= Len(df) THEN Len(df)
    ELSE IF /\ AnyNullAnyNotNull(df[i + 1])
            /\ AnyNullAnyNotNull(df[i + 2])
            /\ AnyNullAnyNotNull(df[i + 3])
         THEN i
         ELSE PreprocessScan(df, i + 1)

\* df.iloc[i:] that leaves row i out as well
Iloc_Exclusive(df, i) == SubSeq(df, i + 2, Len(df))

\* line 27: df.iloc[i:]
Iloc(df, i) == SubSeq(df, i + 1, Len(df))

\* lines 16-28 on the frame read from arg: the frame that is saved
CallPreprocessFile ==
    /\ ret = NoRet
    /\ ret' = LET i == PreprocessScan(arg, 0)
              IN  [op |-> "preprocess_file",
                   found |-> i < Len(arg),
                   index |-> i,
                   value |-> IF i < Len(arg) THEN Iloc(arg, i) ELSE arg]
    /\ UNCHANGED <<processed_files, all_records, embeddings, vector_store,
                   call, arg, ing, qry, committed, conversation_history>>

\* the rows above the located header are removed: df.iloc[h:] with the
\* locator's h, the number that rows_deleted_above_header reports (line 194)
DropAbove ==
    /\ ret.op = "find_header"
    /\ ret.value.via # "none"
    /\ arg' = Iloc(arg, ret.value.index)
    /\ ret' = [op |-> "dropped", above |-> ret.value.index, rows |-> Len(arg)]
    /\ UNCHANGED <<processed_files, all_records, embeddings, vector_store,
                   call, ing, qry, committed, conversation_history>>

\* find_header_with_sequential_pattern on what is left
LocateAgain ==
    /\ ret.op = "dropped"
    /\ ret' = [op |-> "find_header_again", above |-> ret.above,
               rows |-> ret.rows, value |-> FindHeader(arg)]
    /\ UNCHANGED <<processed_files, all_records, embeddings, vector_store,
                   call, arg, ing, qry, committed, conversation_history>>

NextGrid ==
    \/ CallFindHeader
    \/ CallProcessSingleFile
    \/ CallPreprocessFile
    \/ DropAbove
    \/ LocateAgain

SpecGrid == InitGrid /\ [][NextGrid]_vars


(***************************************************************************)
(* One cell taken through every place that decides whether a cell is       *)
(* empty: the classifier (line 81), the density count of the fallback      *)
(* (line 65), the header names (line 149), the skip of empty rows (line    *)
(* 160) and the filter on the stored record (line 183).  Each step calls   *)
(* the operation on the smallest grid in which the cell alone decides the  *)
(* outcome.                                                                *)
(***************************************************************************)

Cells ==
    {NoneCell, NaNCell, IntCell(0), IntCell(1), IntCell(7),
     StrCell(<< >>), StrCell(<<" ">>), StrCell(<<" ", " ">>), StrCell(<<"\t">>),
     StrCell(T_nan), StrCell(<<"N","a","N">>), StrCell(<<"N","A","N">>),
     StrCell(<<"n","o","n","e">>), StrCell(<<"N","o","n","e">>),
     StrCell(<<"N","O","N","E">>), StrCell(<<" ">> \o T_nan),
     StrCell(T_nan \o <<" ">>), StrCell(<<"0">>), StrCell(T_A),
     StrCell(<<" ">> \o T_A \o <<" ">>), StrCell(T_x)}

InitCell ==
    /\ InitProcessor
    /\ call = NoCall
    /\ arg \in {<<cell>> : cell \in Cells}
    /\ ret = NoRet
    /\ ing = NoThread
    /\ qry = NoThread
    /\ committed = NoCommit

\* _has_mixed_values([cell, 'A']): the row is mixed when the cell is null
ClassifyCell ==
    /\ ret = NoRet
    /\ ret' = [op |-> "_has_mixed_values", stage |-> "classifier",
               value |-> HasMixedValues(<<arg[1], StrCell(T_A)>>)]
    /\ UNCHANGED <<processed_files, all_records, embeddings, vector_store,
                   call, arg, ing, qry, committed, conversation_history>>

\* find_header_with_sequential_pattern([[cell]]): no three rows, so the
\* fallback counts the one cell (lines 63-68)
CountCell ==
    /\ ret = NoRet
    /\ ret' = [op |-> "find_header", stage |-> "density",
               value |-> FindHeader(<< <<arg[1]>> >>)]
    /\ UNCHANGED <<processed_files, all_records, embeddings, vector_store,
                   call, arg, ing, qry, committed, conversation_history>>

\* _process_single_file on [[cell, 'A']]: the cell is the first header cell
\* (lines 146-152)
NameCell ==
    /\ ret = NoRet
    /\ ret' = [op |-> "_process_single_file", stage |-> "header",
               value |-> NormalizeGrid(<< <<arg[1], StrCell(T_A)>> >>,
                                       Basename(P_sales), FileId(0))]
    /\ UNCHANGED <<processed_files, all_records, embeddings, vector_store,
                   call, arg, ing, qry, committed, conversation_history>>

\* _process_single_file on [['A'], [cell]]: the cell is the whole data row
\* (lines 158-161)
SkipCell ==
    /\ ret = NoRet
    /\ ret' = [op |-> "_process_single_file", stage |-> "skip",
               value |-> NormalizeGrid(<< <<StrCell(T_A)>>, <<arg[1]>> >>,
                                       Basename(P_sales), FileId(0))]
    /\ UNCHANGED <<processed_files, all_records, embeddings, vector_store,
                   call, arg, ing, qry, committed, conversation_history>>

\* _process_single_file on [['A', 'A'], ['x', cell]]: 'x' takes the row past
\* line 160 and the cell's text replaces it under the repeated name, so the
\* filter of line 183 sees the cell's stored text alone
FilterCell ==
    /\ ret = NoRet
    /\ ret' = [op |-> "_process_single_file", stage |-> "filter",
               value |-> NormalizeGrid(<< <<StrCell(T_A), StrCell(T_A)>>,
                                          <<StrCell(T_x), arg[1]>> >>,
                                       Basename(P_sales), FileId(0))]
    /\ UNCHANGED <<processed_files, all_records, embeddings, vector_store,
                   call, arg, ing, qry, committed, conversation_history>>

NextCell == ClassifyCell \/ CountCell \/ NameCell \/ SkipCell \/ FilterCell

SpecCell == InitCell /\ [][NextCell]_vars


(***************************************************************************)
(* The processor driven from two threads, as src/local_ui.py does: one     *)
(* thread per process_files call (lines 277-348) and one per question      *)
(* (lines 350-391), with no lock in between.  A step of the ingestion      *)
(* thread is one statement of process_files; a step of the query thread    *)
(* is one read of the processor's state.  The question has no digit token, *)
(* so query() reads the store (line 298) and then the index (line 377).    *)
(* local_ui.py wraps every path in a FileWrapper (lines 290-302), which    *)
(* process_files rejects (line 125); the threads are modelled both with    *)
(* the wrapped inputs and with the paths they wrap, the List[str] that     *)
(* process_files declares (line 92).                                       *)
(* committed is the pair <<all_records, vector_store>> as the last batch   *)
(* that ran to its end left it; qry.may_see collects the pairs that were   *)
(* committed while the query ran.                                          *)
(***************************************************************************)
IdleIngest(n) == [pc |-> "idle", started |-> n]

InitThreads ==
    /\ InitProcessor
    /\ call = NoCall
    /\ arg = << >>
    /\ ret = NoRet
    /\ ing = IdleIngest(0)
    /\ qry = NoThread
    /\ committed = NoCommit

\* processor.py lines 94-95, entered from process_thread (local_ui.py:306)
IngStart(file_paths) ==
    /\ ing.pc = "idle"
    /\ ing.started < MaxCalls
    /\ ing' = [pc |-> "loop", started |-> ing.started + 1,
               file_paths |-> file_paths, i |-> 0, results |-> << >>]
    /\ all_records' = << >>
    /\ UNCHANGED <<processed_files, embeddings, vector_store, call, arg, ret,
                   qry, committed, conversation_history>>

\* processor.py lines 97-115, one file; an exception that leaves
\* process_files ends the thread (local_ui.py:340)
IngFileWith(step) ==
    /\ IF step.raised
       THEN /\ ing' = IdleIngest(ing.started)
            /\ UNCHANGED all_records
       ELSE /\ ing' = [ing EXCEPT !.i = ing.i + 1, !.results = step.results]
            /\ all_records' = step.records
    /\ UNCHANGED <<processed_files, embeddings, vector_store, call, arg, ret,
                   qry, committed, conversation_history>>

IngFile ==
    /\ ing.pc = "loop"
    /\ ing.i < Len(ing.file_paths)
    /\ IngFileWith(FileStep(ing.results, all_records,
                            ing.file_paths[ing.i + 1], ing.i))

\* processor.py line 117
IngAssign ==
    /\ ing.pc = "loop"
    /\ ing.i >= Len(ing.file_paths)
    /\ processed_files' = ing.results
    /\ ing' = [ing EXCEPT !.pc = "build"]
    /\ UNCHANGED <<all_records, embeddings, vector_store, call, arg, ret, qry,
                   committed, conversation_history>>

\* processor.py lines 118-121: the batch is complete when this returns
IngBuildWith(built, embed_ok, chroma_ok) ==
    /\ embeddings = "model" => embed_ok
    /\ (built.embeddings = "None" \/ all_records = << >>) => chroma_ok
    /\ embeddings' = built.embeddings
    /\ vector_store' = built.vector_store
    /\ committed' = <<all_records, built.vector_store>>
    /\ qry' = IF qry.pc = "idle" THEN qry
              ELSE [qry EXCEPT !.may_see =
                        @ \cup {<<all_records, built.vector_store>>}]
    /\ ing' = IdleIngest(ing.started)
    /\ UNCHANGED <<processed_files, all_records, call, arg, ret,
                   conversation_history>>

IngBuild(embed_ok, chroma_ok) ==
    /\ ing.pc = "build"
    /\ IngBuildWith(BuildRagSystem(all_records, embeddings, vector_store,
                                   embed_ok, chroma_ok),
                    embed_ok, chroma_ok)

\* local_ui.py lines 350-391: the question is passed on only when
\* processed_files is not empty (line 368)
AskQuestion ==
    /\ qry.pc = "idle"
    /\ processed_files # << >>
    /\ qry' = [pc |-> "q298", store |-> << >>, read_index |-> FALSE,
               index |-> NoStore, may_see |-> {committed}]
    /\ UNCHANGED <<processed_files, all_records, embeddings, vector_store,
                   call, arg, ret, ing, committed, conversation_history>>

\* processor.py line 298: "if not self.all_records: return ..."
QueryReadStore ==
    /\ qry.pc = "q298"
    /\ qry' = [qry EXCEPT !.store = all_records,
                          !.pc = IF all_records = << >> THEN "done" ELSE "q377"]
    /\ UNCHANGED <<processed_files, all_records, embeddings, vector_store,
                   call, arg, ret, ing, committed, conversation_history>>

\* processor.py line 377: "if self.vector_store:"
QueryReadIndex ==
    /\ qry.pc = "q377"
    /\ qry' = [qry EXCEPT !.index = vector_store, !.read_index = TRUE,
                          !.pc = "done"]
    /\ UNCHANGED <<processed_files, all_records, embeddings, vector_store,
                   call, arg, ret, ing, committed, conversation_history>>

\* the answer is shown and the query thread ends (local_ui.py:378-381)
QueryReturn ==
    /\ qry.pc = "done"
    /\ qry' = NoThread
    /\ UNCHANGED <<processed_files, all_records, embeddings, vector_store,
                   call, arg, ret, ing, committed, conversation_history>>

NextThreads ==
    \/ \E file_paths \in Batches : IngStart(file_paths)
    \/ IngFile
    \/ IngAssign
    \/ \E embed_ok \in BOOLEAN, chroma_ok \in BOOLEAN : IngBuild(embed_ok, chroma_ok)
    \/ AskQuestion
    \/ QueryReadStore
    \/ QueryReadIndex
    \/ QueryReturn

SpecThreads == InitThreads /\ [][NextThreads]_vars

(***************************************************************************)
(* The processor asked questions between ingestions, one call at a time    *)
(* (src/app.py lines 154 and 227)                                          *)
(***************************************************************************)
Q_commission_named == <<"W","h","a","t"," ","i","s"," ","t","h","e"," ","c",
    "o","m","m","i","s","s","i","o","n"," ","o","f"," ","1","5","2","3","4",
    " ","-"," ","A","l","i","c","e","?">>
Q_commission_doe == <<"W","h","a","t"," ","i","s"," ","t","h","e"," ","c","o",
    "m","m","i","s","s","i","o","n"," ","o","f"," ","1","5","2","3","4"," ",
    "-"," ","J","o","h","n"," ","D","o","e","?">>
Q_commission_org == <<"W","h","a","t"," ","i","s"," ","t","h","e"," ","c","o",
    "m","m","i","s","s","i","o","n"," ","o","f"," ","1","5","2","3","4"," ",
    "-"," ","A","c","m","e"," ","O","r","g","a","n","i","z","a","t","i","o",
    "n","?">>
Q_commission_id == <<"W","h","a","t"," ","i","s"," ","t","h","e"," ","c","o",
    "m","m","i","s","s","i","o","n"," ","o","f"," ","1","5","2","3","5","?">>
Q_commission_blank == <<"c","o","m","m","i","s","s","i","o","n"," ","o","f",
    " ","1","1","5","2","3","4">>
Q_net_pay == <<"n","e","t"," ","p","a","y"," ","o","f"," ","1","5","2","3",
    "4"," ","-"," ","A","L","I","C","E">>
Q_id_only == <<"1","5","2","3","4">>
Q_blank_name == <<"1","5","2","3","4"," ","-"," ","?">>
Q_unknown_id == <<"w","h","o"," ","i","s"," ","9","9","9","9","9","?">>
Q_words == <<"a","l","i","c","e"," ","r","o","y">>
Q_no_word == <<"Z","e","b","r","a">>
Q_long_number == <<"1","2","3","4","5","6","7"," ","a","c","m","e">>
Q_two_fields == <<"a","l","i","c","e"," ","a","c","m","e">>

Questions ==
    {Q_commission_named, Q_commission_doe, Q_commission_org, Q_commission_id,
     Q_commission_blank, Q_net_pay, Q_id_only, Q_blank_name, Q_unknown_id,
     Q_words, Q_no_word, Q_long_number, Q_two_fields}

\* the batches ingested before questions are asked
QueryBatches ==
    {b \in Batches :
        \A i \in DOMAIN b :
            b[i].kind = "path" /\ b[i].path \in {P_sales, P_staff, P_empty}}

\* query(question) returned result; nth counts the askings in a row of this
\* question
QueryStep(question, result) ==
    /\ ret' = [op |-> "query", question |-> question, result |-> result,
               nth |-> IF ret.op = "query" /\ ret.question = question
                       THEN (IF ret.nth < MaxAsks THEN ret.nth + 1 ELSE MaxAsks)
                       ELSE 1]
    /\ UNCHANGED <<processed_files, all_records, embeddings, vector_store,
                   call, arg, ing, qry, committed, conversation_history>>

\* query that also keeps the question in the conversation history
Query_Remembering(question, search) ==
    /\ ret' = [op |-> "query", question |-> question,
               result |-> QueryCall(all_records, vector_store, question,
                                    search),
               nth |-> IF ret.op = "query" /\ ret.question = question
                       THEN (IF ret.nth < MaxAsks THEN ret.nth + 1 ELSE MaxAsks)
                       ELSE 1]
    /\ conversation_history' = IF conversation_history = << >>
                               THEN << question >>
                               ELSE conversation_history
    /\ UNCHANGED <<processed_files, all_records, embeddings, vector_store,
                   call, arg, ing, qry, committed>>

\* query(question), lines 296-399
Query(question, search) ==
    QueryStep(question, QueryCall(all_records, vector_store, question, search))

\* lines 298, 304 and 377: similarity_search is reached with records, an
\* index and no identifier in the question; elsewhere its outcome is not
\* drawn
SearchOutcomesFor(question) ==
    IF all_records # << >> /\ vector_store.kind # "None"
           /\ ~IdMatch(question).found
    THEN SearchOutcomes
    ELSE {"none"}

NextQuery ==
    \/ \E file_paths \in QueryBatches, embed_ok \in BOOLEAN, chroma_ok \in BOOLEAN :
           ProcessFiles(file_paths, embed_ok, chroma_ok)
    \/ \E question \in Questions :
           \E search \in SearchOutcomesFor(question) : Query(question, search)

SpecQuery == Init /\ [][NextQuery]_vars

(***************************************************************************)
(* get_all_data_summary, lines 401-437                                     *)
(***************************************************************************)
\* records[:5], line 426
SampleWindow == 5
\* len(...) >= 4, line 428
SampleMinLen == 4

\* str.isdigit()
IsDigits(s) == s # << >> /\ \A i \in 1..Len(s) : IsDigit(s[i])

\* lines 409-414: file_groups, a dict from record['_filename'] to the list of
\* the records that carry it
RECURSIVE FileGroups(_, _, _)
FileGroups(records, i, file_groups) ==
    IF i > Len(records) THEN file_groups
    ELSE LET filename == DictGet(records[i], K_filename)
         IN  FileGroups(records, i + 1,
                 DictSet(file_groups, filename,
                     IF DictHas(file_groups, filename)
                     THEN Append(DictGet(file_groups, filename), records[i])
                     ELSE << records[i] >>))

\* line 421: the keys of the first record that do not start with '_'
RECURSIVE Columns(_, _)
Columns(record, i) ==
    IF i > Len(record) THEN << >>
    ELSE (IF ~IsProvenanceKey(record[i][1]) THEN << record[i][1] >>
          ELSE << >>)
         \o Columns(record, i + 1)

\* lines 427-430: the value the inner loop appends before its break, NoMatch
\* when the loop ends without one
RECURSIVE SampleId(_, _)
SampleId(record, i) ==
    IF i > Len(record) THEN NoMatch
    ELSE IF /\ ~IsProvenanceKey(record[i][1])
            /\ Truthy(record[i][2])
            /\ IsDigits(Strip(Str(record[i][2])))
            /\ Len(Strip(Str(record[i][2]))) >= SampleMinLen
         THEN Match(Strip(Str(record[i][2])))
         ELSE SampleId(record, i + 1)

\* lines 425-430: sample_ids over records[:5]
RECURSIVE SampleIds(_, _)
SampleIds(records, i) ==
    IF i > Len(records) \/ i > SampleWindow THEN << >>
    ELSE (IF SampleId(records[i], 1).found
          THEN << SampleId(records[i], 1).text >>
          ELSE << >>)
         \o SampleIds(records, i + 1)

\* ', '.join(parts)
RECURSIVE JoinComma(_)
JoinComma(parts) ==
    IF Len(parts) = 0 THEN << >>
    ELSE IF Len(parts) = 1 THEN parts[1]
    ELSE parts[1] \o <<","," ">> \o JoinComma(Tail(parts))

\* what the loop of line 416 has in hand for one entry of file_groups
Group(filename, records) ==
    [filename |-> filename,
     records |-> records,
     columns |-> Columns(records[1], 1),
     sample_ids |-> SampleIds(records, 1)]

\* lines 416-435: the text added for one group
GroupText(group) ==
    <<"*","*","F","i","l","e",":"," ">> \o Str(group.filename) \o <<"*","*",
        " ","(">>
        \o IntToStr(Len(group.records)) \o <<" ","r","e","c","o","r","d","s",
            ")","\n">>
    \o <<"C","o","l","u","m","n","s",":",
        " ">> \o JoinComma(group.columns) \o <<"\n">>
    \o (IF group.sample_ids # << >>
        THEN <<"S","a","m","p","l","e"," ","I","D","s",":",
            " ">> \o JoinComma(group.sample_ids) \o <<"\n">>
        ELSE << >>)
    \o <<"\n">>

RECURSIVE GroupTexts(_, _)
GroupTexts(groups, g) ==
    IF g > Len(groups) THEN << >>
    ELSE GroupText(groups[g]) \o GroupTexts(groups, g + 1)

\* the character U+1F4CA of line 406
ChartSign == <<"U+1F4CA">>

\* lines 403-437, with the groups in hand: the text returned, beside the
\* count and the groups it is written from (total is 0 and there are no
\* groups on the return of line 404)
SummaryOf(records, groups) ==
    [value |-> IF records = << >> THEN <<"N","o"," ","d","a","t","a"," ","l",
        "o","a","d","e","d",".">>
               ELSE ChartSign \o <<" ","*","*","T","o","t","a","l"," ","R",
                   "e","c","o","r","d","s"," ","L","o","a","d","e","d",":",
                   " ">>
                        \o IntToStr(Len(records)) \o <<"*","*","\n","\n">>
                        \o GroupTexts(groups, 1),
     total |-> Len(records),
     groups |-> groups]

\* the groups of lines 409-430, in the order of file_groups
GroupsWith(file_groups) ==
    [g \in 1..Len(file_groups) |-> Group(file_groups[g][1], file_groups[g][2])]

\* get_all_data_summary(), lines 401-437
AllDataSummary(records) ==
    SummaryOf(records, GroupsWith(FileGroups(records, 1, << >>)))

(***************************************************************************)
(* The processor asked for its summary between ingestions (local_ui.py     *)
(* lines 332 and 359)                                                      *)
(***************************************************************************)
\* the batches ingested before the summary is asked for
SummaryBatches ==
    {b \in Batches :
        \A i \in DOMAIN b :
            /\ b[i].kind = "path"
            /\ b[i].path \in {P_sales, P_ledger, P_staff, P_reserved, P_empty,
                              P_missing}}

\* get_all_data_summary() returned
GetAllDataSummary ==
    /\ ret' = [op |-> "summary", result |-> AllDataSummary(all_records)]
    /\ UNCHANGED <<processed_files, all_records, embeddings, vector_store,
                   call, arg, ing, qry, committed, conversation_history>>

NextSummary ==
    \/ \E file_paths \in SummaryBatches, embed_ok \in BOOLEAN, chroma_ok \in BOOLEAN :
           ProcessFiles(file_paths, embed_ok, chroma_ok)
    \/ GetAllDataSummary

SpecSummary == Init /\ [][NextSummary]_vars

(***************************************************************************)
(* Properties of the classifier and the header locator                     *)
(***************************************************************************)
\* spec.md section 3: an empty-like cell is None, or a cell whose text is
\* whitespace only, or whose text is nan / none in any letter case (the
\* parsed missing value reads nan)
EmptyLike(cell) ==
    LET text == Str(cell)
    IN  \/ cell.kind = "None"
        \/ \A i \in 1..Len(text) : text[i] \in Whitespace
        \/ \E w \in NullWords :
               /\ Len(w) = Len(text)
               /\ \A i \in 1..Len(w) : LowerChar(text[i]) = w[i]

\* spec.md section 4.1: at least one empty-like and one non-empty cell
MixedRow(row) ==
    /\ \E i \in 1..Len(row) : EmptyLike(row[i])
    /\ \E i \in 1..Len(row) : ~EmptyLike(row[i])

\* rows i, i+1, i+2 (0-based) of grid are all mixed
TripleAt(grid, i) ==
    /\ 0 <= i /\ i <= Len(grid) - 3
    /\ MixedRow(grid[i + 1]) /\ MixedRow(grid[i + 2]) /\ MixedRow(grid[i + 3])

HasTriple(grid) == \E i \in 0..(Len(grid) - 3) : TripleAt(grid, i)

\* spec.md section 4.2: at least half of the row's cells are non-empty
HalfNonEmpty(row) ==
    2 * Cardinality({j \in 1..Len(row) : ~EmptyLike(row[j])}) >= Len(row)

\* C6: _has_mixed_values(r) is true exactly when r holds at least one
\* empty-like cell and at least one cell that is not empty-like; in
\* particular it is false for a row of zero cells, for a row of empty-like
\* cells only and for a row of non-empty cells only.
C6_MixedIffBothKinds ==
    ret.op = "_has_mixed_values" =>
        /\ ret.value = MixedRow(arg)
        /\ (arg = << >> => ret.value = FALSE)

\* C6 witness: a row with a sentinel text, a padded sentinel and the number 0
\* has been classified as mixed.
C6_Witness ==
    /\ ret.op = "_has_mixed_values"
    /\ ret.value = TRUE
    /\ Len(arg) = 3
    /\ arg[1] = StrCell(<<"N","a","N">>)
    /\ arg[2] = StrCell(<<" ">> \o T_nan)
    /\ arg[3] = IntCell(0)

\* C7: when some rows i, i+1, i+2 are all mixed, the locator returns the
\* lowest such i, by the pattern and not by the density fallback.
C7_LowestTripleWins ==
    (ret.op = "find_header" /\ HasTriple(arg)) =>
        /\ ret.value.via = "pattern"
        /\ TripleAt(arg, ret.value.index)
        /\ \A i \in 0..(Len(arg) - 3) : TripleAt(arg, i) => ret.value.index <= i

\* C7 witness: the locator has answered for a grid with two matching triples,
\* the lower one below a banner row.
C7_Witness ==
    /\ ret.op = "find_header"
    /\ ret.value.via = "pattern"
    /\ ret.value.index >= 1
    /\ TripleAt(arg, ret.value.index + 1)

\* C8 (as claimed): without three consecutive mixed rows the locator returns
\* the first row among the first 10 whose share of non-empty cells is at
\* least one half, and signals HeaderNotFound when there is none.
C8_FallbackFirstHalfFull ==
    (ret.op = "find_header" /\ ~HasTriple(arg)) =>
        LET window == {i \in 0..(Len(arg) - 1) : i < FallbackWindow}
            dense == {i \in window : HalfNonEmpty(arg[i + 1])}
        IN  IF dense = {}
            THEN ret.value = NoHeader
            ELSE /\ ret.value.via = "fallback"
                 /\ ret.value.index \in dense
                 /\ \A i \in dense : ret.value.index <= i

\* C9 (as claimed): on the fixture grid rows 0, 1 and 2 are all mixed and the
\* locator returns row 0 by the three-row pattern.
C9_FixtureByPattern ==
    (ret.op = "find_header" /\ arg = FixtureGrid) =>
        /\ HasMixedValues(arg[1]) /\ HasMixedValues(arg[2]) /\ HasMixedValues(arg[3])
        /\ ret.value = [index |-> 0, via |-> "pattern"]

\* C9 (amended): on the fixture grid rows 0 and 2 are mixed and row 1 is
\* not, no three consecutive rows are all mixed, and the locator returns
\* row 0 by the density fallback.
C9_FixtureByFallback ==
    (ret.op = "find_header" /\ arg = FixtureGrid) =>
        /\ HasMixedValues(arg[1]) /\ ~HasMixedValues(arg[2]) /\ HasMixedValues(arg[3])
        /\ ~HasTriple(arg)
        /\ ret.value = [index |-> 0, via |-> "fallback"]

\* C9 witness: the locator has answered for the fixture grid.
C9_Witness == ret.op = "find_header" /\ arg = FixtureGrid

\* C10: a successful File Result has a header_row that is a row index of
\* the file's grid and one column name per cell of that row; a grid without
\* rows gives no success.
C10_HeaderRowValid ==
    ret.op = "_process_single_file" =>
        /\ ret.value.outcome = "return" =>
               /\ ret.value.value.status = "success"
               /\ 0 <= ret.value.value.header_row
               /\ ret.value.value.header_row < Len(arg)
               /\ Len(ret.value.value.columns)
                      = Len(arg[ret.value.value.header_row + 1])
               /\ ret.value.value.column_count = Len(ret.value.value.columns)
        /\ arg = << >> => ret.value.outcome = "raise"

\* C10 witness: a file with a banner above its table was processed with
\* success and its header is the last row of the grid.
C10_Witness ==
    /\ ret.op = "_process_single_file"
    /\ ret.value.outcome = "return"
    /\ ret.value.value.header_row >= 1
    /\ ret.value.value.header_row = Len(arg) - 1
    /\ \E j \in 1..Len(arg[Len(arg)]) : ~IsNonNull(arg[Len(arg)][j])


(***************************************************************************)
(* Properties of ingestion                                                 *)
(***************************************************************************)
\* the records of the successful File Results of a results mapping, in the
\* mapping's order
RECURSIVE SuccessfulRecords(_, _)
SuccessfulRecords(results, i) ==
    IF i > Len(results) THEN << >>
    ELSE (IF results[i][2].status = "success" THEN results[i][2].data ELSE << >>)
         \o SuccessfulRecords(results, i + 1)

\* results holds one File Result per input of file_paths, keyed file_1 ..
\* file_n in input order, each naming its input's file
OneResultPerInput(results, file_paths) ==
    /\ Len(results) = Len(file_paths)
    /\ \A i \in 1..Len(results) :
           /\ results[i][1] = FileId(i - 1)
           /\ results[i][2].status \in {"success", "error"}
           /\ results[i][2].filename = Basename(file_paths[i].path)

\* C1 (as claimed): after a process_files call, processed_files holds the
\* results of that call only and the store is the concatenation, in file
\* order then row order, of the records of its successful File Results.
C1_StoreIsLastBatch ==
    call.outcome # "none" =>
        /\ OneResultPerInput(processed_files, call.file_paths)
        /\ all_records = SuccessfulRecords(processed_files, 1)

\* C2 (as claimed): every process_files call returns, with one File Result
\* per input keyed file_1 .. file_n in input order; an input that cannot be
\* read or has no header gives a failure File Result carrying the error.
C2_EveryBatchReturns ==
    call.outcome # "none" =>
        /\ call.outcome = "returned"
        /\ OneResultPerInput(processed_files, call.file_paths)
        /\ \A i \in 1..Len(processed_files) :
               LET file == Disk[call.file_paths[i].path]
                   failing == file.state # "ok" \/ file.grid = << >>
               IN  IF failing
                   THEN /\ processed_files[i][2].status = "error"
                        /\ processed_files[i][2].error.msg # ""
                   ELSE processed_files[i][2].status = "success"

\* the File Results whose id is the record's provenance file id
ResultsOf(record) ==
    {i \in 1..Len(processed_files) :
        StrCell(processed_files[i][1]) = DictGet(record, K_file_id)}

\* C3 (as claimed): each record of the store carries the file id of exactly
\* one File Result of the results mapping, that File Result is a success
\* and holds the record; whatever the header cells read.
C3_ProvenanceMatchesOneResult ==
    \A r \in 1..Len(all_records) :
        /\ Cardinality(ResultsOf(all_records[r])) = 1
        /\ \A i \in ResultsOf(all_records[r]) :
               /\ processed_files[i][2].status = "success"
               /\ \E k \in 1..Len(processed_files[i][2].data) :
                      processed_files[i][2].data[k] = all_records[r]

\* C4 (as claimed): after a process_files call the index is disabled or
\* holds exactly one Retrieval Document per record of the store, in order.
C4_IndexMatchesStore ==
    call.outcome # "none" =>
        \/ vector_store = NoStore
        \/ /\ Len(vector_store.docs) = Len(all_records)
           /\ \A i \in 1..Len(all_records) :
                  vector_store.docs[i] = Document(all_records[i])

Normalized == ret.op = "_process_single_file" /\ ret.value.outcome = "return"

\* the rows of arg after the header row, as the normalizer numbers them
DataRow(k) == arg[ret.value.value.header_row + 2 + k]

DataRowCount == Len(arg) - ret.value.value.header_row - 1

\* C11 (as claimed): a data row whose cells are all empty-like gives no
\* Record, and every stored Record has a non-provenance value that is not
\* empty-like.
C11_NoEmptyRecordStored ==
    Normalized =>
        /\ \A k \in 0..(DataRowCount - 1) :
               (\A j \in 1..Len(DataRow(k)) : EmptyLike(DataRow(k)[j])) =>
                   ~\E r \in 1..Len(ret.value.value.data) :
                       DictGet(ret.value.value.data[r], K_row_index) = IntCell(k)
        /\ \A r \in 1..Len(ret.value.value.data) :
               \E i \in 1..Len(ret.value.value.data[r]) :
                   /\ ~IsProvenanceKey(ret.value.value.data[r][i][1])
                   /\ ~EmptyLike(ret.value.value.data[r][i][2])

\* the name the header synthesis rule of spec.md section 3 gives position p
ClaimedName(cell, p) ==
    IF EmptyLike(cell)
    THEN <<"C","o","l","u","m","n","_">> \o IntToStr(p)
    ELSE Strip(Str(cell))

\* the trimmed text of position p of a data row, '' past its end
ClaimedValue(row, p) ==
    IF p <= Len(row) /\ row[p].kind # "None" THEN Strip(Str(row[p])) ELSE << >>

\* C12 (as claimed): the header list has one name per cell of the header
\* row, the trimmed text of a non-empty cell and Column_p for an empty cell
\* at position p; names are not deduplicated, and under a name that several
\* positions yield a Record holds the value of the last of them.
C12_HeaderNamesSynthesized ==
    Normalized =>
        LET header_data == arg[ret.value.value.header_row + 1]
            columns == ret.value.value.columns
            data == ret.value.value.data
        IN  /\ Len(columns) = Len(header_data)
            /\ \A p \in 1..Len(header_data) :
                   columns[p] = ClaimedName(header_data[p], p)
            /\ \A r \in 1..Len(data) : \A p \in 1..Len(columns) :
                   LET last == CHOOSE q \in p..Len(columns) :
                                   /\ columns[q] = columns[p]
                                   /\ \A t \in (q + 1)..Len(columns) :
                                          columns[t] # columns[p]
                       k == DictGet(data[r], K_row_index).val
                   IN  /\ Cardinality({i \in 1..Len(data[r]) :
                                           data[r][i][1] = columns[p]}) = 1
                       /\ DictGet(data[r], K_row_index).kind = "int" =>
                              DictGet(data[r], columns[p])
                                  = StrCell(ClaimedValue(DataRow(k), last))

(***************************************************************************)
(* Properties of query                                                     *)
(***************************************************************************)
\* query has answered the question ret.question; the store and the index it
\* read are all_records and vector_store (query writes neither, and
\* process_files clears ret)
Asked == ret.op = "query"

\* C13: with an empty store query returns the fixed no-data message, for a
\* question with or without an identifier and whatever the index holds, and
\* calls neither the index nor the keyword search nor the exact lookup.
C13_EmptyStoreNoData ==
    (Asked /\ all_records = << >>) =>
        /\ ret.result.value = <<"N","o"," ","d","a","t","a"," ","a","v","a",
            "i","l","a","b","l","e","."," ","P","l","e","a","s","e"," ","p",
            "r","o","c","e","s","s"," ","f","i","l","e","s"," ","f","i","r",
            "s","t",".">>
        /\ ~ret.result.searched
        /\ ~ret.result.scored
        /\ ret.result.record = 0

\* C13 witness: an identifier question was asked after a batch without
\* records, while the index of an earlier batch is still in place.
C13_Witness ==
    /\ Asked
    /\ all_records = << >>
    /\ processed_files # << >>
    /\ vector_store.kind = "Chroma"
    /\ ret.question = Q_commission_named

\* the non-provenance values of a record, as texts
FieldTexts(record) ==
    {Str(record[i][2]) : i \in {i \in 1..Len(record) :
                                    ~IsProvenanceKey(record[i][1])}}

\* spec.md section 4.6, step 3: the identifier is in some value and, when a
\* qualifier was extracted, the qualifier is in some value, letter case
\* apart
ClaimedMatch(record, id, name) ==
    /\ \E v \in FieldTexts(record) : Contains(v, id)
    /\ name.found =>
           \E v \in FieldTexts(record) : Contains(Lower(v), Lower(name.text))

\* C14 (as claimed): when an identifier is extracted the answer comes from
\* the exact lookup alone: the record used is the first in store order that
\* matches the identifier and the qualifier, and the no-record message that
\* echoes both is returned when none matches; the index and the keyword
\* search are not called.
C14_ExactLookupDecides ==
    (Asked /\ all_records # << >> /\ IdMatch(ret.question).found) =>
        LET id == IdMatch(ret.question).text
            name == NameMatch(ret.question, id)
            matching == {i \in 1..Len(all_records) :
                            ClaimedMatch(all_records[i], id, name)}
        IN  /\ ~ret.result.searched
            /\ ~ret.result.scored
            /\ IF matching = {}
               THEN /\ ret.result.record = 0
                    /\ Contains(ret.result.value, <<"N","o"," ","r","e","c",
                        "o","r","d"," ","f","o","u","n","d"," ","f","o","r",
                        " ","I","D"," ">>)
                    /\ Contains(ret.result.value, id)
                    /\ Contains(ret.result.value, name.text)
               ELSE /\ ret.result.record \in matching
                    /\ \A i \in matching : ret.result.record <= i

\* the question 'What is the commission of <id> - <name>?'
CommissionQuestion(id, name) ==
    <<"W","h","a","t"," ","i","s"," ","t","h","e"," ","c","o","m","m","i","s",
        "s","i","o","n"," ","o","f"," ">> \o id \o <<" ","-",
        " ">> \o name \o <<"?">>

\* the <id>, <name> pairs asked in this form
CommissionAsked ==
    {<<<<"1","5","2","3","4">>, <<"A","l","i","c","e">>>>, <<<<"1","5","2",
        "3","4">>, <<"J","o","h","n"," ","D","o","e">>>>,
     <<<<"1","5","2","3","4">>, <<"A","c","m","e"," ","O","r","g","a","n","i",
         "z","a","t","i","o","n">>>>}

K_Commission == <<"C","o","m","m","i","s","s","i","o","n">>

\* the answer names the Commission value, the name and the file of record
CommissionShown(record, name) ==
    /\ Contains(ret.result.value, Str(DictGet(record, K_Commission)))
    /\ Contains(ret.result.value, name)
    /\ Contains(ret.result.value, Str(DictGet(record, K_filename)))

\* the record has a 'Commission' column with a non-empty value
HasCommission(record) ==
    DictHas(record, K_Commission) /\ Truthy(DictGet(record, K_Commission))

CommissionAt == CHOOSE m \in 1..Len(FieldMappings) :
                    FieldMappings[m][1] = <<"c","o","m","m","i","s","s","i",
                        "o","n">>

\* a key phrase listed before 'commission' occurs in the question and one of
\* its columns is a column of the record
EarlierPhraseResolves(record, question) ==
    \E m \in 1..(CommissionAt - 1) :
        /\ Contains(Lower(question), FieldMappings[m][1])
        /\ \E c \in 1..Len(FieldMappings[m][2]) :
               DictHas(record, FieldMappings[m][2][c])

BulletedLines(text) ==
    {SubSeq(text, i, (CHOOSE j \in i..(Len(text) + 1) :
                         /\ j = Len(text) + 1 \/ text[j] = "\n"
                         /\ \A k \in i..(j - 1) : text[k] # "\n") - 1) :
        i \in {i \in 1..Len(text) :
                  /\ text[i] = Bullet[1]
                  /\ i = 1 \/ text[i - 1] = "\n"}}

\* one bulleted line per non-provenance pair of the record with a value
ClaimedLines(record) ==
    {Bullet \o <<" ">> \o record[i][1] \o <<":"," ">> \o Str(record[i][2]) :
        i \in {i \in 1..Len(record) :
                  /\ ~IsProvenanceKey(record[i][1])
                  /\ Strip(Str(record[i][2])) # << >>}}

\* the key phrases of the field table that occur in the question
Recognized(question) ==
    {m \in 1..Len(FieldMappings) :
        Contains(Lower(question), FieldMappings[m][1])}

\* a recognized key phrase has one of its columns in the record
Resolvable(record, question) ==
    \E m \in Recognized(question) :
        \E c \in 1..Len(FieldMappings[m][2]) :
            DictHas(record, FieldMappings[m][2][c])

\* the text every note about the requested field starts with
NoteLead == <<"N","o","t","e",":"," ","T","h","e"," ","r","e","q","u","e","s",
    "t","e","d"," ","f","i","e","l","d">>

\* C16 (as claimed): when a record matched and no requested field gives a
\* non-empty value, the answer lists exactly the non-empty non-provenance
\* pairs of the record and its filename; it carries the note when a key
\* phrase occurs in the question and resolves to no column of the record,
\* and no note when no key phrase occurs.
C16_EnumerationWithNote ==
    (Asked /\ ret.result.via = "exact") =>
        LET record == all_records[ret.result.record]
            requested == RequestedField(record, Lower(ret.question), 1)
        IN  ~(requested.found /\ Truthy(DictGet(record, requested.text))) =>
                /\ BulletedLines(ret.result.value) = ClaimedLines(record)
                /\ Contains(ret.result.value,
                            <<"(","S","o","u","r","c","e",":",
                                " ">> \o Str(DictGet(record, K_filename))
                                \o <<")">>)
                /\ (Recognized(ret.question) # {}
                        /\ ~Resolvable(record, ret.question))
                       => Contains(ret.result.value, NoteLead)
                /\ Recognized(ret.question) = {}
                       => ~Contains(ret.result.value, NoteLead)

\* a word of the question occurs in a non-provenance value of the record,
\* letter case apart
WordOccurs(record, question) ==
    \E word \in SplitWords(Lower(question)) :
        \E v \in FieldTexts(record) : Contains(Lower(v), word)

C18_SearchFailureFallsBack ==
    /\ [](( /\ Asked
            /\ all_records # << >>
            /\ vector_store.kind # "None"
            /\ ~IdMatch(ret.question).found) =>
              /\ ret.result.searched
              /\ ret.result.via = "keyword_after_error" =>
                     /\ ret.result.scored
                     /\ ret.result.value
                            = QueryCall(all_records, NoStore, ret.question,
                                        "none").value)
    /\ [][ret'.op = "query" => vector_store' = vector_store]_vars

\* C18 witness: the same question was asked twice in a row of a store with
\* an index, the second similarity_search raised and a record text came back.
C18_Witness ==
    /\ Asked
    /\ ret.nth = 2
    /\ vector_store.kind # "None"
    /\ ret.result.via = "keyword_after_error"
    /\ ret.result.searched
    /\ ret.result.value # NoRelevantAnswer

\* the number of words of the question that occur in some non-provenance
\* value of the record
WordScore(record, question) ==
    Cardinality({word \in SplitWords(Lower(question)) :
                    \E v \in FieldTexts(record) : Contains(Lower(v), word)})

\* the number of non-provenance fields of the record whose non-empty value
\* contains at least one word of the question
FieldScore(record, question) ==
    Cardinality({i \in 1..Len(record) :
        /\ ~IsProvenanceKey(record[i][1])
        /\ Strip(Str(record[i][2])) # << >>
        /\ \E word \in SplitWords(Lower(question)) :
               Contains(Lower(Str(record[i][2])), word)})

\* the records first in the order by descending score, ties in store order
FirstByScore(Score(_, _), question) ==
    {i \in 1..Len(all_records) :
        /\ Score(all_records[i], question) > 0
        /\ \A j \in 1..Len(all_records) :
               Score(all_records[j], question) <= Score(all_records[i], question)
        /\ \A j \in 1..(i - 1) :
               Score(all_records[j], question) < Score(all_records[i], question)}

\* the keyword search answered with the text of the record first by Score,
\* or with the no-relevant-information message when no record scores
AnsweredByScore(Score(_, _)) ==
    (Asked /\ ret.result.scored) =>
        IF FirstByScore(Score, ret.question) = {}
        THEN ret.result.value = NoRelevantAnswer
        ELSE \A i \in FirstByScore(Score, ret.question) :
                 ret.result.value = FoundPrefix \o Render(all_records[i])

\* C19 (as claimed): the keyword search scores a record by the number of
\* distinct words of the question that occur in one of its values, drops the
\* records that score 0, and returns the text of the first record by
\* descending score, ties in store order.
C19_ScoreCountsWords == AnsweredByScore(WordScore)

\* C19 (amended): the keyword search scores a record by the number of its
\* non-provenance fields with a non-empty value that contains at least one
\* word of the question, drops the records that score 0, and returns the
\* text of the first record by descending score, ties in store order.
C19_ScoreCountsFields == AnsweredByScore(FieldScore)

\* C19 witness: 'alice acme' was answered by the keyword search with the
\* text of a record that has an earlier record with a lower positive score.
C19_Witness ==
    /\ Asked
    /\ ret.result.scored
    /\ ret.question = Q_two_fields
    /\ \E i \in FirstByScore(FieldScore, ret.question) :
           /\ ret.result.value = FoundPrefix \o Render(all_records[i])
           /\ \E j \in 1..(i - 1) :
                  FieldScore(all_records[j], ret.question) > 0

\* C20: a query changes none of the record store, the file results, the
\* index and the conversation history, and an identifier question asked
\* again right after itself selects the same record and gets the same
\* answer.
C20_QueryReadOnly ==
    [][ret'.op = "query" =>
          /\ UNCHANGED <<all_records, processed_files, vector_store,
                         conversation_history>>
          /\ (Asked /\ ret.question = ret'.question
                    /\ IdMatch(ret.question).found) =>
                 /\ ret'.result.record = ret.result.record
                 /\ ret'.result.value = ret.result.value]_vars

\* C20 witness: an identifier question was asked twice in a row and a record
\* was selected.
C20_Witness ==
    /\ Asked
    /\ ret.nth = 2
    /\ IdMatch(ret.question).found
    /\ ret.result.record > 0
    /\ processed_files # << >>
    /\ conversation_history = << >>

(***************************************************************************)
(* Properties of get_all_data_summary                                      *)
(***************************************************************************)
\* get_all_data_summary has returned; the store it read is all_records and
\* the file results of that store are processed_files (the summary writes
\* neither, and process_files clears ret)
Summarized == ret.op = "summary"

\* the record lists of the processed files that contributed records
ContributedData ==
    {processed_files[f][2].data :
        f \in {f \in 1..Len(processed_files) :
                  /\ processed_files[f][2].status = "success"
                  /\ processed_files[f][2].data # << >>}}

\* the first non-provenance value of the record that is made of digits only
\* and is at least 4 long, NoMatch when there is none
FirstDigitValue(record) ==
    LET at == {i \in 1..Len(record) :
                  /\ ~IsProvenanceKey(record[i][1])
                  /\ IsDigits(Strip(Str(record[i][2])))
                  /\ Len(Strip(Str(record[i][2]))) >= 4}
    IN  IF at = {} THEN NoMatch
        ELSE Match(Strip(Str(record[CHOOSE i \in at :
                                        \A j \in at : i <= j][2])))

\* the sample a group's first 5 records give: one value per record that has
\* one, in the order of the records
ClaimedSample(records) ==
    LET found == SelectSeq([i \in 1..(IF Len(records) < 5 THEN Len(records)
                                      ELSE 5) |-> FirstDigitValue(records[i])],
                           LAMBDA m : m.found)
    IN  [i \in 1..Len(found) |-> found[i].text]

RECURSIVE SumOfCounts(_, _)
SumOfCounts(groups, g) ==
    IF g > Len(groups) THEN 0
    ELSE Len(groups[g].records) + SumOfCounts(groups, g + 1)

\* C21 (as claimed): the summary gives the number of records in the store
\* and one group per processed file that contributed records, each group
\* holding the records of its file alone, the group counts adding up to the
\* total; a group's sample is at most 5 long and is made of the first
\* digits-only value of length 4 or more of each of its first 5 records.
C21_SummaryGroupsByFile ==
    (Summarized /\ all_records # << >>) =>
        LET groups == ret.result.groups
        IN  /\ ret.result.total = Len(all_records)
            /\ SumOfCounts(groups, 1) = ret.result.total
            /\ Len(groups) = Cardinality(ContributedData)
            /\ {groups[g].records : g \in 1..Len(groups)} = ContributedData
            /\ \A g \in 1..Len(groups) :
                   /\ Len(groups[g].sample_ids) <= 5
                   /\ groups[g].sample_ids = ClaimedSample(groups[g].records)
                   /\ Contains(ret.result.value,
                               <<"*","*"," ",
                                   "(">> \o IntToStr(Len(groups[g].records))
                                   \o <<" ","r","e","c","o","r","d","s",")">>)

(***************************************************************************)
(* Properties of the provenance of a record                                *)
(***************************************************************************)
\* the columns whose name no other column and no provenance key bears
PlainColumns ==
    {p \in 1..Len(ret.value.value.columns) :
        /\ ~IsProvenanceKey(ret.value.value.columns[p])
        /\ \A q \in 1..Len(ret.value.value.columns) :
               ret.value.value.columns[q] = ret.value.value.columns[p] => q = p}

\* C22 (as claimed): in a successful File Result with header index h every
\* record carries the offset k of its source row among the rows after the
\* header, skipped rows counted, and the original index h + 1 + k, a grid
\* index greater than h; the offsets increase strictly along the records.
C22_RowOffsetsTraceable ==
    Normalized =>
        LET h == ret.value.value.header_row
            data == ret.value.value.data
            offset(r) == DictGet(data[r], K_row_index)
            original(r) == DictGet(data[r], K_original_row)
        IN  /\ \A r \in 1..Len(data) :
                   offset(r).kind = "int" /\ original(r).kind = "int"
            /\ \A r \in 1..Len(data) :
                   /\ 0 <= offset(r).val
                   /\ offset(r).val < DataRowCount
                   /\ \A p \in PlainColumns :
                          DictGet(data[r], ret.value.value.columns[p])
                              = StrCell(ClaimedValue(DataRow(offset(r).val), p))
                   /\ original(r).val = h + 1 + offset(r).val
                   /\ original(r).val > h
                   /\ original(r).val < Len(arg)
            /\ \A r1, r2 \in 1..Len(data) :
                   r1 < r2 => offset(r1).val < offset(r2).val

(***************************************************************************)
(* Properties of the empty-cell tests                                      *)
(***************************************************************************)
Column_1 == <<"C","o","l","u","m","n","_","1">>

\* what the stage that acted made of the cell: TRUE when it took it as empty
TreatedAsEmpty ==
    CASE ret.stage = "classifier" -> ret.value
      [] ret.stage = "density" -> ret.value.via = "none"
      [] ret.stage = "header" -> ret.value.value.columns[1] = Column_1
      [] OTHER -> ret.value.value.row_count = 0

\* C23: the density count of the fallback, the header names, the skip of
\* empty rows and the filter on the stored record take a cell as empty
\* exactly when the classifier (_has_mixed_values) takes it as empty-like,
\* for None, empty and blank text, nan/none as text or as a missing value,
\* the number 0 and ordinary text.
C23_OneClassification ==
    ret # NoRet =>
        (TreatedAsEmpty <=> HasMixedValues(<<arg[1], StrCell(T_A)>>))

(***************************************************************************)
(* Properties of locating the header after the rows above it are removed   *)
(***************************************************************************)
LocatedAgain == ret.op = "find_header_again"

=============================================================================
